---- MODULE Spec2Model ----
(***************************************************************************)
(* A model of the whatsupdoc RAG orchestration pipeline:                   *)
(*   - the Slack orchestrator ResearchPaperBot._handle_query with its      *)
(*     query normalizer _clean_query and rate limiter _check_rate_limit    *)
(*     (src/src/whatsupdoc/slack_bot.py);                                  *)
(*   - the confidence derivation of the retrieval clients                  *)
(*     (vertex_rag_client.py, core/vertex_rag_client.py,                   *)
(*     modern_vertex_rag_client.py);                                       *)
(*   - the answer generator GeminiRAGService.generate_answer               *)
(*     (gemini_rag.py);                                                    *)
(*   - the bot's startup ResearchPaperBot.start and its event handlers,    *)
(*     with platform and service calls that may raise (slack_bot.py);      *)
(*   - the web pipeline WebRAGService.process_query (web/service.py) and   *)
(*     the core retrieval client's handling of backend failures            *)
(*     (core/vertex_rag_client.py);                                        *)
(*   - the retry wrapper and the error classification of                   *)
(*     ModernErrorHandler (error_handler.py);                              *)
(*   - the origin allowlist OriginValidationMiddleware.dispatch            *)
(*     (web/middleware.py).                                                *)
(* Text is modelled as a sequence of one-character strings.  Confidence    *)
(* scores and distances are modelled in tenths (8 stands for 0.8).         *)
(***************************************************************************)
EXTENDS Integers, Sequences, FiniteSets, TLC

VARIABLES
    \* process-wide rate-limit state (slack_bot.py:37-38) and the wall clock
    user_query_count, user_last_reset, now,
    \* sequential request handling: whether the bot has a generative service, ghost
    \* count of accepted requests since each user's last reset, record of the last
    \* request (its limiter branch: the user's first call, a reset after the window
    \* expired, or the same window; the user's count before it; the calls it made)
    rag_service, accepted, last,
    \* concurrent _check_rate_limit calls of one user: per-thread position and locals
    pc, current_time, current_count, ret, count0,
    \* _clean_query applied repeatedly to a text built from nfrags fragments:
    \* text is the current text, prev the one before the last application
    text, prev, applied, nfrags,
    \* retrieval client: which implementation runs, and the SearchResults parsed
    \* so far from the backend's contexts
    client, results,
    \* answer generator: input results and the response of generate_answer
    search_results, response,
    \* delivery paths: the last run of one path from retrieval to the answer
    delivery,
    \* retrieval client of the web pipeline: the configured project and the log of
    \* the calls made to the client, each with what the backend did and how it ended
    project_id, conn_log,
    \* the bot from construction on: how far start() got, what its connection tests
    \* returned, and the record of the last request handled
    phase, startup, request,
    \* robust_api_call: the outcomes of the attempts of the running call, where
    \* the call stands, and the calls that ended before it
    attempt_log, call_status, finished_calls,
    \* handle_rag_error: the text of the error, built from fragments, and the
    \* message returned for it
    error_text, error_frags, error_message,
    \* origin validation middleware: its allowlist, the request being dispatched,
    \* the response, and how often the downstream application was called
    allowed_origins, http_request, http_response, downstream_calls,
    \* _format_shown_response: the RAGResponse passed in, as it is after the call,
    \* and the blocks returned
    shown_response, blocks,
    \* core search_async: what the backend answers, the requests made to it, and
    \* what the call returned
    response_data, request_count, search_output,
    \* sequential _check_rate_limit calls on their own: the calls made so far, each
    \* with its user, its time, what it found, the count it read and what it returned
    call_log

rlVars == <<user_query_count, user_last_reset, now>>
seqVars == <<rag_service, accepted, last>>
thVars == <<pc, current_time, current_count, ret, count0>>
cleanVars == <<text, prev, applied, nfrags>>
searchVars == <<client, results>>
genVars == <<search_results, response>>
pathVars == <<delivery>>
coreVars == <<rlVars, seqVars, thVars, cleanVars, searchVars, genVars>>
connVars == <<project_id, conn_log>>
botVars == <<phase, startup, request>>
retryVars == <<attempt_log, call_status, finished_calls>>
errVars == <<error_text, error_frags, error_message>>
mwVars == <<allowed_origins, http_request, http_response, downstream_calls>>
fmtVars == <<shown_response, blocks>>
backendVars == <<response_data, request_count, search_output>>
winVars == <<call_log>>
extVars == <<pathVars, connVars, botVars, retryVars, errVars, mwVars, fmtVars,
             backendVars, winVars>>
vars == <<user_query_count, user_last_reset, now, rag_service, accepted, last,
          pc, current_time, current_count, ret, count0,
          text, prev, applied, nfrags, client, results, search_results, response,
          delivery,
          project_id, conn_log,
          phase, startup, request,
          attempt_log, call_status, finished_calls,
          error_text, error_frags, error_message,
          allowed_origins, http_request, http_response,
          downstream_calls,
          shown_response, blocks,
          response_data, request_count, search_output,
          call_log>>

None == "none"

(***************************************************************************)
(* Bounds of the model.                                                    *)
(***************************************************************************)
\* config.rate_limit_per_user (default 10), kept small
Limit == 2
\* config.rate_limit_window in clock ticks (default 60 s), kept small
Window == 2
\* the clock runs from 0 to MaxTime
MaxTime == 4
\* a raw text is made of at most MaxFrags fragments
MaxFrags == 4
\* a backend response holds at most MaxContexts contexts
MaxContexts == 2
\* raw distances and scores range over -MaxRaw/2 .. MaxRaw/2 in steps of 0.5
MaxRaw == 10
\* generate_answer gets at most MaxResults search results
MaxResults == 5
\* max_context_length ranges over the multiples of BudgetStep up to
\* BudgetStep * MaxBudgetSteps characters
BudgetStep == 25
MaxBudgetSteps == 6

Users == {"U1", "U2"}

(***************************************************************************)
(* Text helpers (Python str operations used by the code).                  *)
(***************************************************************************)
IsSpace(c) == c \in {" ", "\t", "\n"}

\* [A-Z0-9] restricted to the characters the model's inputs use
IsUpperAlnum(c) == c \in {"U", "A", "B", "0", "1", "2", "3", "4", "5", "6", "7", "8", "9", "S"}

RECURSIVE LStrip(_)
LStrip(s) == IF s # <<>> /\ IsSpace(Head(s)) THEN LStrip(Tail(s)) ELSE s

RECURSIVE RStrip(_)
RStrip(s) == IF s # <<>> /\ IsSpace(s[Len(s)]) THEN RStrip(SubSeq(s, 1, Len(s) - 1)) ELSE s

\* str.strip()
Strip(s) == RStrip(LStrip(s))

\* str.startswith(p)
StartsWith(s, p) == Len(s) >= Len(p) /\ SubSeq(s, 1, Len(p)) = p

\* s[n:]
Drop(s, n) == IF n >= Len(s) THEN <<>> ELSE SubSeq(s, n + 1, Len(s))

\* p in s
Contains(s, p) == \E i \in 1..(Len(s) - Len(p) + 1) : SubSeq(s, i, i + Len(p) - 1) = p

\* length of the maximal run of [A-Z0-9] starting at position i of s
RECURSIVE AlnumRun(_, _)
AlnumRun(s, i) == IF i <= Len(s) /\ IsUpperAlnum(s[i]) THEN 1 + AlnumRun(s, i + 1) ELSE 0

\* length of the match of <@U[A-Z0-9]+> at the start of s, 0 if none
MentionMatch(s) ==
    IF StartsWith(s, <<"<", "@", "U">>)
    THEN LET n == AlnumRun(s, 4)
         IN IF n >= 1 /\ Len(s) >= 4 + n /\ s[4 + n] = ">" THEN 4 + n ELSE 0
    ELSE 0

\* re.sub(r'<@U[A-Z0-9]+>', '', s): one left-to-right pass over non-overlapping matches
RECURSIVE RemoveMentions(_)
RemoveMentions(s) ==
    IF s = <<>> THEN <<>>
    ELSE LET m == MentionMatch(s)
         IN IF m > 0 THEN RemoveMentions(Drop(s, m))
            ELSE <<Head(s)>> \o RemoveMentions(Tail(s))

AskPrefix == <<"/", "a", "s", "k">>

\* slack_bot.py:262-263
StripAsk(s) == IF StartsWith(s, AskPrefix) THEN Strip(Drop(s, 4)) ELSE s

\* ResearchPaperBot._clean_query
clean_query(s) == StripAsk(Strip(RemoveMentions(Strip(s))))

\* a faulty variant: any query passes the length check
TooShort_Never(q) == FALSE

\* slack_bot.py:157: not clean_query or len(clean_query.strip()) < 3
TooShort(q) == q = <<>> \/ Len(Strip(q)) < 3

(***************************************************************************)
(* Rate limiter.                                                           *)
(***************************************************************************)
\* dict[k] = v
Put(f, k, v) == [x \in (DOMAIN f) \cup {k} |-> IF x = k THEN v ELSE f[x]]

\* dict.get(k, d)
Get(f, k, d) == IF k \in DOMAIN f THEN f[k] ELSE d

EmptyDict == [x \in {} |-> 0]

\* a faulty variant: a window never expires
WindowExpired_Never(t, r) == FALSE

\* slack_bot.py:273
WindowExpired(t, r) == t - r >= Window

\* a faulty variant: one request too many is let through
LimitReached_Off(c) == c > Limit

\* slack_bot.py:282
LimitReached(c) == c >= Limit

\* a faulty variant: an accepted call is counted twice
Increment_Twice(c) == c + 2

\* slack_bot.py:286
Increment(c) == c + 1

\* a faulty variant: every call restarts the user's window
AfterReset_Sliding(u, t, cnt, rst) ==
    IF u \in DOMAIN rst /\ ~WindowExpired(t, rst[u])
    THEN [count |-> cnt, reset |-> Put(rst, u, t)]
    ELSE [count |-> Put(cnt, u, 0), reset |-> Put(rst, u, t)]

\* slack_bot.py:271-278: the two mappings after the reset-on-expiry step
AfterReset(u, t, cnt, rst) ==
    IF u \in DOMAIN rst
    THEN IF WindowExpired(t, rst[u])
         THEN [count |-> Put(cnt, u, 0), reset |-> Put(rst, u, t)]
         ELSE [count |-> cnt, reset |-> rst]
    ELSE [count |-> Put(cnt, u, 0), reset |-> Put(rst, u, t)]

\* ResearchPaperBot._check_rate_limit called at time t with no other call
\* in progress: the returned value and the two mappings afterwards
check_rate_limit(u, t, cnt, rst) ==
    LET a == AfterReset(u, t, cnt, rst)
        cur == Get(a.count, u, 0)
    IN IF LimitReached(cur)
       THEN [ok |-> FALSE, count |-> a.count, reset |-> a.reset]
       ELSE [ok |-> TRUE, count |-> Put(a.count, u, Increment(cur)), reset |-> a.reset]

(***************************************************************************)
(* The orchestrator, one request at a time, with platform calls that       *)
(* return; the runs in which they raise are those of handle_request        *)
(* further below (specification SpecBot).                                  *)
(***************************************************************************)
\* raw texts of incoming requests
Queries == {
    <<>>,
    <<"a", "b">>,
    <<"a", " ", "b">>,
    <<"a", "b", "c">>,
    <<"<", "@", "U", "A", "1", ">", " ", "h", "i">>,
    <<"/", "a", "s", "k", " ", "w", "h", "y", "?">>
}

\* what the retrieval client's search does for one request
SearchOutcomes == {"raise", "empty", "results"}

Ev(op, msg) == [op |-> op, msg |-> msg]

\* slack_bot.py:197-208 and the like: the outcome message updates the placeholder
\* when the placeholder send returned a timestamp, else it is a new message
Deliver(hasTs, msg) == IF hasTs THEN <<Ev("chat_update", msg)>> ELSE <<Ev("respond", msg)>>

\* slack_bot.py:163-251: the steps after both checks passed
SearchAndReply(rag, hasTs, so) ==
    <<Ev("respond", "loading"), Ev("search", None)>> \o
    (IF so = "raise" THEN Deliver(hasTs, "error")
     ELSE IF so = "results" /\ rag THEN <<Ev("generate", None)>> \o Deliver(hasTs, "answer")
     ELSE IF so = "results" THEN Deliver(hasTs, "results")
     ELSE Deliver(hasTs, "no_results"))

\* the runs of the steps after both checks, over what the platform and the
\* retrieval service may do
Runs(limiter, cnt, rst, rag) ==
    {[limiter |-> limiter, count |-> cnt, reset |-> rst,
      log |-> SearchAndReply(rag, hasTs, so),
      state |-> IF so = "raise" THEN "errored" ELSE "replied"] :
        hasTs \in BOOLEAN, so \in SearchOutcomes}

\* a faulty variant: the query is normalized and its length checked before the rate limit
handle_query_LengthFirst(u, q, t, cnt, rst, rag) ==
    LET rl == check_rate_limit(u, t, cnt, rst)
        cq == clean_query(q)
    IN IF TooShort(cq)
       THEN {[limiter |-> "not_consulted", count |-> cnt, reset |-> rst,
              log |-> <<Ev("respond", "guidance")>>, state |-> "replied"]}
       ELSE IF ~rl.ok
       THEN {[limiter |-> "rejected", count |-> rl.count, reset |-> rl.reset,
              log |-> <<Ev("respond", "rate_limit")>>, state |-> "replied"]}
       ELSE Runs("accepted", rl.count, rl.reset, rag)

\* ResearchPaperBot._handle_query (slack_bot.py:141-251), the possible runs of one
\* request: the rate limiter's answer ("not_consulted" when it was not called), the
\* two mappings afterwards, the calls made in order, and the terminal state
handle_query(u, q, t, cnt, rst, rag) ==
    LET rl == check_rate_limit(u, t, cnt, rst)
        cq == clean_query(q)
    IN IF ~rl.ok
       THEN {[limiter |-> "rejected", count |-> rl.count, reset |-> rl.reset,
              log |-> <<Ev("respond", "rate_limit")>>, state |-> "replied"]}
       ELSE IF TooShort(cq)
       THEN {[limiter |-> "accepted", count |-> rl.count, reset |-> rl.reset,
              log |-> <<Ev("respond", "guidance")>>, state |-> "replied"]}
       ELSE Runs("accepted", rl.count, rl.reset, rag)

\* values of the variables a specification does not use
IdleRate == user_query_count = None /\ user_last_reset = None /\ now = 0
IdleSeq == rag_service = None /\ accepted = None /\ last = None
IdleThreads ==
    /\ pc = None /\ current_time = None /\ current_count = None
    /\ ret = None /\ count0 = None
IdleClean == text = None /\ prev = None /\ applied = 0 /\ nfrags = 0
IdleSearch == client = None /\ results = None
IdleGen == search_results = None /\ response = None
IdlePaths == delivery = None
IdleConn == project_id = None /\ conn_log = None
IdleBot == phase = None /\ startup = None /\ request = None
IdleRetry == attempt_log = None /\ call_status = None /\ finished_calls = None
IdleErr == error_text = None /\ error_frags = 0 /\ error_message = None
IdleMw ==
    /\ allowed_origins = None /\ http_request = None /\ http_response = None
    /\ downstream_calls = 0
IdleFmt == shown_response = None /\ blocks = None
IdleBackend == response_data = None /\ request_count = 0 /\ search_output = None
IdleWin == call_log = None
IdleExt ==
    /\ IdlePaths /\ IdleConn /\ IdleBot /\ IdleRetry /\ IdleErr /\ IdleMw
    /\ IdleFmt /\ IdleBackend /\ IdleWin
IdleCore == IdleRate /\ IdleSeq /\ IdleThreads /\ IdleClean /\ IdleSearch /\ IdleGen

\* per specification, the variables it does not use and their values
pathsRest == <<coreVars, connVars, botVars, retryVars, errVars, mwVars,
    fmtVars, backendVars, winVars>>
IdlePathsRest ==
    IdleCore /\ IdleConn /\ IdleBot /\ IdleRetry /\ IdleErr /\ IdleMw
    /\ IdleFmt /\ IdleBackend /\ IdleWin
connRest == <<coreVars, pathVars, botVars, retryVars, errVars, mwVars,
    fmtVars, backendVars, winVars>>
IdleConnRest ==
    IdleCore /\ IdlePaths /\ IdleBot /\ IdleRetry /\ IdleErr /\ IdleMw
    /\ IdleFmt /\ IdleBackend /\ IdleWin
retryRest == <<coreVars, pathVars, connVars, botVars, errVars, mwVars,
    fmtVars, backendVars, winVars>>
IdleRetryRest ==
    IdleCore /\ IdlePaths /\ IdleConn /\ IdleBot /\ IdleErr /\ IdleMw
    /\ IdleFmt /\ IdleBackend /\ IdleWin
errRest == <<coreVars, pathVars, connVars, botVars, retryVars, mwVars,
    fmtVars, backendVars, winVars>>
IdleErrRest ==
    IdleCore /\ IdlePaths /\ IdleConn /\ IdleBot /\ IdleRetry /\ IdleMw
    /\ IdleFmt /\ IdleBackend /\ IdleWin
mwRest == <<coreVars, pathVars, connVars, botVars, retryVars, errVars,
    fmtVars, backendVars, winVars>>
IdleMwRest ==
    IdleCore /\ IdlePaths /\ IdleConn /\ IdleBot /\ IdleRetry /\ IdleErr
    /\ IdleFmt /\ IdleBackend /\ IdleWin
botRest == <<accepted, last, thVars, cleanVars, searchVars, genVars, pathVars, connVars,
             retryVars, errVars, mwVars, fmtVars, backendVars, winVars>>
IdleBotRest ==
    /\ accepted = None /\ last = None
    /\ IdleThreads /\ IdleClean /\ IdleSearch /\ IdleGen /\ IdlePaths /\ IdleConn
    /\ IdleRetry /\ IdleErr /\ IdleMw /\ IdleFmt /\ IdleBackend /\ IdleWin
fmtRest == <<coreVars, pathVars, connVars, botVars, retryVars, errVars, mwVars,
             backendVars, winVars>>
IdleFmtRest ==
    /\ IdleCore /\ IdlePaths /\ IdleConn /\ IdleBot /\ IdleRetry /\ IdleErr /\ IdleMw
    /\ IdleBackend /\ IdleWin
backendRest == <<coreVars, pathVars, connVars, botVars, retryVars, errVars, mwVars,
                 fmtVars, winVars>>
IdleBackendRest ==
    /\ IdleCore /\ IdlePaths /\ IdleConn /\ IdleBot /\ IdleRetry /\ IdleErr /\ IdleMw
    /\ IdleFmt /\ IdleWin
winRest == <<seqVars, thVars, cleanVars, searchVars, genVars, pathVars, connVars, botVars,
             retryVars, errVars, mwVars, fmtVars, backendVars>>
IdleWinRest ==
    /\ IdleSeq /\ IdleThreads /\ IdleClean /\ IdleSearch /\ IdleGen /\ IdlePaths
    /\ IdleConn /\ IdleBot /\ IdleRetry /\ IdleErr /\ IdleMw /\ IdleFmt /\ IdleBackend

NoRequest ==
    [user |-> None, query |-> <<>>, limiter |-> "not_consulted", branch |-> "same",
     prevCount |-> 0, log |-> <<>>, state |-> "received"]

Init ==
    /\ user_query_count = EmptyDict
    /\ user_last_reset = EmptyDict
    /\ now = 0
    /\ rag_service \in BOOLEAN
    /\ accepted = [u \in Users |-> 0]
    /\ last = NoRequest
    /\ IdleThreads /\ IdleClean /\ IdleSearch /\ IdleGen /\ IdleExt

\* the wall clock advances
Tick ==
    /\ now < MaxTime
    /\ now' = now + 1
    /\ UNCHANGED <<user_query_count, user_last_reset, seqVars>>
    /\ UNCHANGED <<thVars, cleanVars, searchVars, genVars>>
    /\ UNCHANGED extVars

\* one request is handled from start to end (handle_mention, handle_dm)
HandleQuery ==
    /\ \E u \in Users, q \in Queries :
         \E r \in handle_query(u, q, now, user_query_count, user_last_reset, rag_service) :
           LET branch == IF r.reset = user_last_reset THEN "same"
                         ELSE IF u \in DOMAIN user_last_reset THEN "reset" ELSE "first"
           IN /\ user_query_count' = r.count
              /\ user_last_reset' = r.reset
              /\ accepted' = [accepted EXCEPT ![u] =
                                (IF branch = "same" THEN @ ELSE 0)
                                + (IF r.limiter = "accepted" THEN 1 ELSE 0)]
              /\ last' = [user |-> u, query |-> q, limiter |-> r.limiter,
                          branch |-> branch, prevCount |-> Get(user_query_count, u, 0),
                          log |-> r.log, state |-> r.state]
    /\ UNCHANGED <<now, rag_service>>
    /\ UNCHANGED <<thVars, cleanVars, searchVars, genVars>>
    /\ UNCHANGED extVars

Next == Tick \/ HandleQuery

Spec == Init /\ [][Next]_vars

(***************************************************************************)
(* Claims about the rate limiter and the orchestrator (specification Spec).*)
(***************************************************************************)
\* a step that handles a request (the clock stands still)
IsRequestStep == now' = now

GuidanceOnly == <<Ev("respond", "guidance")>>
RateLimitOnly == <<Ev("respond", "rate_limit")>>

Calls(log, op) == {i \in 1..Len(log) : log[i].op = op}

\* the user's count as _check_rate_limit reads it at line 281 of a call made now
CurrentCount(u) ==
    IF u \notin DOMAIN user_last_reset \/ now - user_last_reset[u] >= Window
    THEN 0 ELSE user_query_count[u]

\* C1: once `limit` calls of a user have been accepted since the user's last reset,
\* every further call made while now - last_reset < window is rejected; the first
\* call made when now - last_reset >= window resets the count to 0, restarts the
\* window at now and is accepted (leaving the count at 1).
C1_LimitThenReset ==
    [][IsRequestStep =>
        LET u == last'.user
        IN /\ (/\ u \in DOMAIN user_last_reset
               /\ now - user_last_reset[u] < Window
               /\ accepted[u] >= Limit) => last'.limiter = "rejected"
           /\ (/\ u \in DOMAIN user_last_reset
               /\ now - user_last_reset[u] >= Window)
                 => /\ last'.limiter = "accepted"
                    /\ user_last_reset'[u] = now
                    /\ user_query_count'[u] = 1
                    /\ accepted'[u] = 1]_vars

\* C1 witness: a user who had used up the limit is accepted again by the call
\* that finds the window expired
C1_Witness ==
    /\ last.branch = "reset"
    /\ last.prevCount = Limit
    /\ last.limiter = "accepted"

NonSpaceCount(s) == Cardinality({i \in 1..Len(s) : ~IsSpace(s[i])})

C5_RejectKeepsAcceptAddsOne ==
    [][IsRequestStep =>
        LET u == last'.user
        IN /\ last'.limiter = "rejected"
                => /\ u \in DOMAIN user_query_count
                   /\ user_query_count[u] >= Limit
                   /\ now - user_last_reset[u] < Window
                   /\ user_query_count'[u] = user_query_count[u]
                   /\ user_last_reset'[u] = user_last_reset[u]
           /\ last'.limiter = "accepted"
                => user_query_count'[u] = CurrentCount(u) + 1]_vars

\* C5 witness: a call was rejected after an accepted call had raised the count
C5_Witness ==
    /\ last.limiter = "rejected"
    /\ last.prevCount = Limit
    /\ user_query_count[last.user] = Limit

(***************************************************************************)
(* Two requests of one user handled concurrently (specification SpecConc). *)
(* handle_ask_command runs _handle_query on a thread of its own            *)
(* (slack_bot.py:108-125); _check_rate_limit takes no lock, so the threads *)
(* interleave between its statements.  A thread's pc names the line of      *)
(* slack_bot.py it executes next.                                          *)
(***************************************************************************)
Threads == {"T1", "T2"}

\* the user both requests come from
TheUser == "U1"

InitConc ==
    /\ now = 0
    /\ \/ /\ user_query_count = EmptyDict
          /\ user_last_reset = EmptyDict
          /\ count0 = -1
       \/ \E c \in 0..Limit :
            /\ user_query_count = Put(EmptyDict, TheUser, c)
            /\ user_last_reset = Put(EmptyDict, TheUser, 0)
            /\ count0 = c
    /\ pc = [t \in Threads |-> "l269"]
    /\ current_time = [t \in Threads |-> 0]
    /\ current_count = [t \in Threads |-> 0]
    /\ ret = [t \in Threads |-> FALSE]
    /\ IdleSeq /\ IdleClean /\ IdleSearch /\ IdleGen /\ IdleExt

Goto(t, l) == pc' = [pc EXCEPT ![t] = l]

\* current_time = time.time()
L269(t) ==
    /\ pc[t] = "l269"
    /\ current_time' = [current_time EXCEPT ![t] = now]
    /\ Goto(t, "l272")
    /\ UNCHANGED <<rlVars, current_count, ret, count0>>
    /\ UNCHANGED <<seqVars, cleanVars, searchVars, genVars>>
    /\ UNCHANGED extVars

\* if user_id in user_last_reset
L272(t) ==
    /\ pc[t] = "l272"
    /\ Goto(t, IF TheUser \in DOMAIN user_last_reset THEN "l273" ELSE "l277")
    /\ UNCHANGED <<rlVars, current_time, current_count, ret, count0>>
    /\ UNCHANGED <<seqVars, cleanVars, searchVars, genVars>>
    /\ UNCHANGED extVars

\* if current_time - user_last_reset[user_id] >= window
L273(t) ==
    /\ pc[t] = "l273"
    /\ Goto(t, IF WindowExpired(current_time[t], user_last_reset[TheUser])
               THEN "l274" ELSE "l281")
    /\ UNCHANGED <<rlVars, current_time, current_count, ret, count0>>
    /\ UNCHANGED <<seqVars, cleanVars, searchVars, genVars>>
    /\ UNCHANGED extVars

\* user_query_count[user_id] = 0
L274(t) ==
    /\ pc[t] = "l274"
    /\ user_query_count' = Put(user_query_count, TheUser, 0)
    /\ Goto(t, "l275")
    /\ UNCHANGED <<user_last_reset, now, current_time, current_count, ret, count0>>
    /\ UNCHANGED <<seqVars, cleanVars, searchVars, genVars>>
    /\ UNCHANGED extVars

\* user_last_reset[user_id] = current_time
L275(t) ==
    /\ pc[t] = "l275"
    /\ user_last_reset' = Put(user_last_reset, TheUser, current_time[t])
    /\ Goto(t, "l281")
    /\ UNCHANGED <<user_query_count, now, current_time, current_count, ret, count0>>
    /\ UNCHANGED <<seqVars, cleanVars, searchVars, genVars>>
    /\ UNCHANGED extVars

\* user_last_reset[user_id] = current_time (first call of the user)
L277(t) ==
    /\ pc[t] = "l277"
    /\ user_last_reset' = Put(user_last_reset, TheUser, current_time[t])
    /\ Goto(t, "l278")
    /\ UNCHANGED <<user_query_count, now, current_time, current_count, ret, count0>>
    /\ UNCHANGED <<seqVars, cleanVars, searchVars, genVars>>
    /\ UNCHANGED extVars

\* user_query_count[user_id] = 0 (first call of the user)
L278(t) ==
    /\ pc[t] = "l278"
    /\ user_query_count' = Put(user_query_count, TheUser, 0)
    /\ Goto(t, "l281")
    /\ UNCHANGED <<user_last_reset, now, current_time, current_count, ret, count0>>
    /\ UNCHANGED <<seqVars, cleanVars, searchVars, genVars>>
    /\ UNCHANGED extVars

\* current_count = user_query_count.get(user_id, 0)
L281(t) ==
    /\ pc[t] = "l281"
    /\ current_count' = [current_count EXCEPT ![t] = Get(user_query_count, TheUser, 0)]
    /\ Goto(t, "l282")
    /\ UNCHANGED <<rlVars, current_time, ret, count0>>
    /\ UNCHANGED <<seqVars, cleanVars, searchVars, genVars>>
    /\ UNCHANGED extVars

\* if current_count >= limit: return False
L282(t) ==
    /\ pc[t] = "l282"
    /\ IF LimitReached(current_count[t])
       THEN Goto(t, "done") /\ ret' = [ret EXCEPT ![t] = FALSE]
       ELSE Goto(t, "l286") /\ UNCHANGED ret
    /\ UNCHANGED <<rlVars, current_time, current_count, count0>>
    /\ UNCHANGED <<seqVars, cleanVars, searchVars, genVars>>
    /\ UNCHANGED extVars

\* user_query_count[user_id] = current_count + 1; return True
L286(t) ==
    /\ pc[t] = "l286"
    /\ user_query_count' = Put(user_query_count, TheUser, Increment(current_count[t]))
    /\ ret' = [ret EXCEPT ![t] = TRUE]
    /\ Goto(t, "done")
    /\ UNCHANGED <<user_last_reset, now, current_time, current_count, count0>>
    /\ UNCHANGED <<seqVars, cleanVars, searchVars, genVars>>
    /\ UNCHANGED extVars

NextConc ==
    \/ Tick
    \/ \E t \in Threads : L269(t)
    \/ \E t \in Threads : L272(t)
    \/ \E t \in Threads : L273(t)
    \/ \E t \in Threads : L274(t)
    \/ \E t \in Threads : L275(t)
    \/ \E t \in Threads : L277(t)
    \/ \E t \in Threads : L278(t)
    \/ \E t \in Threads : L281(t)
    \/ \E t \in Threads : L282(t)
    \/ \E t \in Threads : L286(t)

SpecConc == InitConc /\ [][NextConc]_vars

AllDone == \A t \in Threads : pc[t] = "done"

Accepted == {t \in Threads : ret[t]}

\* C2: two concurrent requests of one user whose count is limit - 1 (no window
\* expiring meanwhile): exactly one _check_rate_limit call returns true, and the
\* stored count does not end below the number of accepted requests.
C2_ExactlyOneAccepted ==
    (/\ AllDone
     /\ count0 = Limit - 1
     /\ user_last_reset[TheUser] = 0)
        => /\ Cardinality(Accepted) = 1
           /\ user_query_count[TheUser] >= count0 + Cardinality(Accepted)

(***************************************************************************)
(* The query normalizer applied twice (specification SpecClean).           *)
(***************************************************************************)
\* pieces a raw text is put together from
Fragments == {
    <<" ">>,
    <<"h", "i">>,
    <<"<", "@", "U">>,
    <<"<", "@", "U", "A", ">">>,
    <<"A", ">">>,
    <<"/", "a", "s", "k">>,
    <<"/", "a", "s">>,
    <<"k">>
}

InitClean ==
    /\ text = <<>> /\ prev = <<>> /\ applied = 0 /\ nfrags = 0
    /\ IdleRate /\ IdleSeq /\ IdleThreads /\ IdleSearch /\ IdleGen /\ IdleExt

\* the raw text grows by one fragment
AppendFragment ==
    /\ applied = 0
    /\ nfrags < MaxFrags
    /\ \E f \in Fragments : text' = text \o f
    /\ nfrags' = nfrags + 1
    /\ UNCHANGED <<prev, applied>>
    /\ UNCHANGED <<rlVars, seqVars, thVars, searchVars, genVars>>
    /\ UNCHANGED extVars

\* text = self._clean_query(text)
ApplyClean ==
    /\ applied < 2
    /\ text' = clean_query(text)
    /\ prev' = text
    /\ applied' = applied + 1
    /\ UNCHANGED nfrags
    /\ UNCHANGED <<rlVars, seqVars, thVars, searchVars, genVars>>
    /\ UNCHANGED extVars

NextClean == AppendFragment \/ ApplyClean

SpecClean == InitClean /\ [][NextClean]_vars

\* C6: _clean_query is idempotent: applying it to its own result changes nothing.
C6_Idempotent == applied = 2 => text = prev

(***************************************************************************)
(* Confidence derivation of the retrieval clients (specification           *)
(* SpecSearch).  Scores are in tenths: 8 is 0.8.                           *)
(***************************************************************************)
Clients == {"core", "legacy", "modern"}

\* raw values a backend may send, in tenths
RawValues == {5 * k : k \in (0 - MaxRaw)..MaxRaw}

\* a context of the backend's response: has_distance is `"distance" in context`,
\* has_score is `"score" in context` (core client) or `"relevanceScore" in context`
\* (legacy client); an absent field's value is written 0
Contexts ==
    {c \in [has_distance : BOOLEAN, distance : RawValues,
            has_score : BOOLEAN, score : RawValues] :
        /\ ~c.has_distance => c.distance = 0
        /\ ~c.has_score => c.score = 0}

Max(a, b) == IF a >= b THEN a ELSE b
Min(a, b) == IF a <= b THEN a ELSE b

\* max(0.1, min(1.0, 1.0 - distance))
ClampDistance(d) == Max(1, Min(10, 10 - d))

\* core/vertex_rag_client.py:121-127 and vertex_rag_client.py:111-117
DeriveConfidence(ctx) ==
    IF ctx.has_distance THEN ClampDistance(ctx.distance)
    ELSE IF ctx.has_score THEN ctx.score
    ELSE 8

\* modern_vertex_rag_client.py:85: confidence_score=rag_chunk.distance
\* (a protobuf float field, 0.0 when unset)
ModernConfidence(ctx) == IF ctx.has_distance THEN ctx.distance ELSE 0

\* the SearchResult built from the i-th context
ParseContext(c, i, ctx) ==
    [index |-> i,
     confidence_score |-> IF c = "modern" THEN ModernConfidence(ctx) ELSE DeriveConfidence(ctx)]

InitSearch ==
    /\ client \in Clients
    /\ results = <<>>
    /\ IdleRate /\ IdleSeq /\ IdleThreads /\ IdleClean /\ IdleGen /\ IdleExt

\* one iteration of the loop over the response's contexts
ParseNext ==
    /\ Len(results) < MaxContexts
    /\ \E ctx \in Contexts : results' = Append(results, ParseContext(client, Len(results), ctx))
    /\ UNCHANGED client
    /\ UNCHANGED <<rlVars, seqVars, thVars, cleanVars, genVars>>
    /\ UNCHANGED extVars

NextSearch == ParseNext

SpecSearch == InitSearch /\ [][NextSearch]_vars

\* C7: every SearchResult has confidence_score within [0.0, 1.0], whichever
\* field supplied the raw value.
C7_ConfidenceInRange ==
    \A i \in 1..Len(results) :
        results[i].confidence_score >= 0 /\ results[i].confidence_score <= 10

(***************************************************************************)
(* The answer generator GeminiRAGService.generate_answer (specification    *)
(* SpecGen).  A SearchResult is given by the lengths of its title, snippet *)
(* and source_uri and by its confidence_score in tenths; a formatted block *)
(* by its length in characters.                                            *)
(***************************************************************************)
ResultPool == {
    [title_len |-> 1, snippet_len |-> 0, uri_len |-> 0, confidence_score |-> 9],
    [title_len |-> 1, snippet_len |-> 19, uri_len |-> 0, confidence_score |-> 6],
    [title_len |-> 2, snippet_len |-> 3, uri_len |-> 14, confidence_score |-> 3]
}

Budgets == {BudgetStep * k : k \in 0..MaxBudgetSteps}

Digits == <<"0", "1", "2", "3", "4", "5", "6", "7", "8", "9">>

IsDigit(c) == \E d \in 1..10 : Digits[d] = c

\* str(n) for n >= 0
RECURSIVE Decimal(_)
Decimal(n) == IF n < 10 THEN <<Digits[n + 1]>> ELSE Decimal(n \div 10) \o <<Digits[(n % 10) + 1]>>

SourceWord == <<"S", "o", "u", "r", "c", "e", " ">>

\* f"Source {i}"
SourceToken(i) == SourceWord \o Decimal(i)

\* len(f"{c:.1%}") for a score of c tenths: the percentage, ".0%", and a sign
PercentLen(c) == (IF c < 0 THEN 1 ELSE 0) + Len(Decimal(10 * (IF c < 0 THEN 0 - c ELSE c))) + 3

\* gemini_rag.py:63-68: len(source_text) of the i-th result
BlockLen(i, r) ==
    Len(SourceToken(i)) + 14 + PercentLen(r.confidence_score) + 3
    + 7 + r.title_len + 1
    + 9 + r.snippet_len + 1
    + (IF r.uri_len > 0 THEN 5 + r.uri_len + 1 ELSE 0)
    + 1

\* a faulty variant: each block is compared with the budget on its own
Overflows_PerBlock(total_length, len, max_context_length) == len > max_context_length

\* gemini_rag.py:71
Overflows(total_length, len, max_context_length) == total_length + len > max_context_length

\* gemini_rag.py:61-76: context_parts (each block with the index of its result)
RECURSIVE Assemble(_, _, _, _, _)
Assemble(rs, i, max_context_length, context_parts, total_length) ==
    IF i > Len(rs) THEN context_parts
    ELSE LET len == BlockLen(i, rs[i])
         IN IF Overflows(total_length, len, max_context_length)
            THEN context_parts
            ELSE Assemble(rs, i + 1, max_context_length,
                          Append(context_parts, [index |-> i, len |-> len]),
                          total_length + len)

RECURSIVE SumConfidence(_)
SumConfidence(rs) ==
    IF rs = <<>> THEN 0 ELSE rs[1].confidence_score + SumConfidence(Tail(rs))

\* a faulty variant: the mean is taken over all the results passed in
ScoredSources_All(used_sources, all_results) == all_results

\* gemini_rag.py:94: the results the mean is taken over
ScoredSources(used_sources, all_results) == used_sources

\* sum(...) / len(...), kept as a fraction of tenths
Mean(rs) == [num |-> SumConfidence(rs), den |-> Len(rs)]

Zero == [num |-> 0, den |-> 1]

\* gemini_rag.py:121
HasCitations(answer_text, n) == \E i \in 1..n : Contains(answer_text, SourceToken(i))

\* texts the generative model may return (<<>>: no text)
Answers == {
    <<>>,
    <<" ">>,
    <<"n", "o">>,
    SourceWord \o <<"1">>,
    <<" ">> \o SourceWord \o <<"2">> \o <<" ">>,
    SourceWord \o <<"7">>,
    SourceWord \o <<"1", "0">>,
    <<"s", "o", "u", "r", "c", "e", " ", "1">>,
    <<"S", "o", "u", "r", "c", "e", "1">>
}

\* what the call of the generative model does
ModelOutcomes == [raises : {TRUE}, text : {<<>>}] \cup [raises : {FALSE}, text : Answers]

Prefix(rs, n) == SubSeq(rs, 1, Min(n, Len(rs)))

\* a faulty variant: the generator goes on with an empty context
NothingFits_Never(context_parts) == FALSE

\* gemini_rag.py:78: `if not context_parts`
NothingFits(context_parts) == context_parts = <<>>

\* GeminiRAGService.generate_answer (gemini_rag.py:40-137); `answer` names the
\* message returned, `text` is the generated text when that is the answer
generate_answer(rs, max_context_length, out) ==
    LET context_parts == Assemble(rs, 1, max_context_length, <<>>, 0)
        used_sources == [k \in 1..Len(context_parts) |-> rs[context_parts[k].index]]
        overall_confidence == Mean(ScoredSources(used_sources, rs))
        answer_text == Strip(out.text)
        base == [max_context_length |-> max_context_length, text |-> <<>>,
                 context |-> context_parts]
    IN IF rs = <<>>
       THEN [base EXCEPT !.context = <<>>] @@
            [answer |-> "no_results", sources |-> <<>>, confidence_score |-> Zero,
             has_citations |-> FALSE, model_calls |-> 0]
       ELSE IF NothingFits(context_parts)
       THEN base @@
            [answer |-> "too_lengthy", sources |-> <<>>, confidence_score |-> Zero,
             has_citations |-> FALSE, model_calls |-> 0]
       ELSE IF out.raises
       THEN base @@
            [answer |-> "error", sources |-> Prefix(rs, 3), confidence_score |-> Zero,
             has_citations |-> FALSE, model_calls |-> 1]
       ELSE IF out.text = <<>>
       THEN base @@
            [answer |-> "trouble", sources |-> used_sources,
             confidence_score |-> overall_confidence,
             has_citations |-> FALSE, model_calls |-> 1]
       ELSE [base EXCEPT !.text = answer_text] @@
            [answer |-> "generated", sources |-> used_sources,
             confidence_score |-> overall_confidence,
             has_citations |-> HasCitations(answer_text, Len(used_sources)),
             model_calls |-> 1]

Pending == [answer |-> "pending"]

InitGen ==
    /\ search_results = <<>>
    /\ response = Pending
    /\ IdleRate /\ IdleSeq /\ IdleThreads /\ IdleClean /\ IdleSearch /\ IdleExt

\* the retrieval client returned one more result
AddResult ==
    /\ response = Pending
    /\ Len(search_results) < MaxResults
    /\ \E r \in ResultPool : search_results' = Append(search_results, r)
    /\ UNCHANGED response
    /\ UNCHANGED <<rlVars, seqVars, thVars, cleanVars, searchVars>>
    /\ UNCHANGED extVars

\* response = await rag_service.generate_answer(query, search_results, max_context_length)
GenerateAnswer ==
    /\ response = Pending
    /\ \E b \in Budgets, out \in ModelOutcomes :
         response' = generate_answer(search_results, b, out)
    /\ UNCHANGED search_results
    /\ UNCHANGED <<rlVars, seqVars, thVars, cleanVars, searchVars>>
    /\ UNCHANGED extVars

NextGen == AddResult \/ GenerateAnswer

SpecGen == InitGen /\ [][NextGen]_vars

\* the results whose blocks are in the context embedded in the prompt
Included == [k \in 1..Len(response.context) |-> search_results[response.context[k].index]]

RECURSIVE SumLen(_)
SumLen(parts) == IF parts = <<>> THEN 0 ELSE parts[1].len + SumLen(Tail(parts))

\* C8: when at least one block fits and the model returns text, the response's
\* confidence_score is the arithmetic mean of confidence_score over exactly the
\* results included in the context, which are the response's sources.
C8_MeanOverUsed ==
    response.answer = "generated"
        => /\ Len(Included) >= 1
           /\ response.sources = Included
           /\ response.confidence_score.den > 0
           /\ response.confidence_score.num * Len(Included)
                = response.confidence_score.den * SumConfidence(Included)

\* C8 witness: 5 results of which only the first 2 fit, with a mean over the 2
\* that differs from the mean over the 5
C8_Witness ==
    /\ response.answer = "generated"
    /\ Len(search_results) = 5
    /\ Len(response.context) = 2
    /\ response.confidence_score.num * 5 # SumConfidence(search_results) * 2

\* C9: the assembled context never has more than max_context_length characters.
C9_ContextWithinBudget ==
    response.answer # "pending"
        => SumLen(response.context) <= response.max_context_length

\* C9 witness: a context of two blocks or more that fills the budget to the last
\* character, a further result having been dropped
C9_Witness ==
    /\ response.answer = "generated"
    /\ Len(response.context) >= 2
    /\ Len(response.context) < Len(search_results)
    /\ SumLen(response.context) = response.max_context_length

\* the text holds "Source k" as a token: not followed by a further digit
HasSourceToken(t, k) ==
    \E i \in 1..Len(t) :
        LET j == i + Len(SourceToken(k))
        IN /\ j - 1 <= Len(t)
           /\ SubSeq(t, i, j - 1) = SourceToken(k)
           /\ (j > Len(t) \/ ~IsDigit(t[j]))

\* C10: has_citations is true if and only if the generated text holds a
\* `Source k` token for some k in 1..n, n the number of used sources; a text that
\* only references numbers outside 1..n gives false.
C10_CitationsIffValidSource ==
    response.answer = "generated"
        => (response.has_citations
              <=> \E k \in 1..Len(response.sources) : HasSourceToken(response.text, k))

(***************************************************************************)
(* The request handler with its environment: the platform calls            *)
(* (respond_func, client.chat_update) and the retrieval call may raise,    *)
(* the retrieval call returns a list of SearchResults, and the generator   *)
(* is generate_answer above.  A run is the sequence of calls the handler   *)
(* made, each with whether it returned (ok) or raised.                     *)
(***************************************************************************)
Call(op, msg, ok) == [op |-> op, msg |-> msg, ok |-> ok]

\* what respond_func does with the placeholder: raises, or returns a response
\* with a ts (say), or one without (the slash command's respond)
LoadingOutcomes == {"raise", "ts", "no_ts"}

\* what search_client.search returns when it does not raise
RetrievedLists == {
    <<>>,
    <<[title_len |-> 1, snippet_len |-> 0, uri_len |-> 0, confidence_score |-> 9]>>,
    <<[title_len |-> 1, snippet_len |-> 19, uri_len |-> 0, confidence_score |-> 6],
      [title_len |-> 2, snippet_len |-> 3, uri_len |-> 14, confidence_score |-> 3]>>
}

SearchReturns == [raises : {TRUE}, results : {<<>>}] \cup [raises : {FALSE}, results : RetrievedLists]

\* what the generative model does when the handler's generator calls it
HandlerModelOutcomes ==
    {[raises |-> TRUE, text |-> <<>>], [raises |-> FALSE, text |-> <<>>],
     [raises |-> FALSE, text |-> SourceWord \o <<"1">>]}

\* config.max_context_length, in the units of Budgets
ConfigBudget == BudgetStep * MaxBudgetSteps

\* slack_bot.py:198-210 and its three copies: update the placeholder when it
\* has a ts, post a new message otherwise
SendReply(hasTs, msg, ok) ==
    <<Call(IF hasTs THEN "chat_update" ELSE "respond", msg, ok)>>

NoBundle == [answer |-> "none"]

\* a faulty variant: the generator is called whenever there is a generative
\* service, results or not
UseGenerator_Always(rs, rag) == rag

\* slack_bot.py:185: if results and self.rag_service
UseGenerator(rs, rag) == rs # <<>> /\ rag

\* slack_bot.py:239-251: the except branch sends the error message; a raise of
\* that call leaves the handler
OnFailure(hasTs, log, retrieved, bundle, d2) ==
    [log |-> log \o SendReply(hasTs, "error", d2), state |-> "errored",
     raised |-> ~d2, has_ts |-> hasTs, retrieved |-> retrieved, bundle |-> bundle]

\* slack_bot.py:163-251: _handle_query after the rate-limit and length checks.
\* ld: the placeholder send; sr: the retrieval call; out: the model call;
\* d1: the outcome send returns; d2: the error send returns
handle_accepted(rag, ld, sr, out, d1, d2) ==
    IF ld = "raise"
    THEN [log |-> <<Call("respond", "loading", FALSE)>>, state |-> "received",
          raised |-> TRUE, has_ts |-> FALSE, retrieved |-> -1, bundle |-> NoBundle]
    ELSE LET hasTs == ld = "ts"
             searched == <<Call("respond", "loading", TRUE),
                           Call("search", None, ~sr.raises)>>
             rs == sr.results
             rag_response == generate_answer(rs, ConfigBudget, out)
             useGen == UseGenerator(rs, rag)
             called == IF useGen THEN searched \o <<Call("generate", None, TRUE)>>
                       ELSE searched
             bundle == IF useGen THEN rag_response ELSE NoBundle
             msg == IF useGen THEN "answer"
                    ELSE IF rs # <<>> THEN "results" ELSE "no_results"
         IN IF sr.raises
            THEN OnFailure(hasTs, searched, -1, NoBundle, d2)
            ELSE IF d1
            THEN [log |-> called \o SendReply(hasTs, msg, TRUE), state |-> "replied",
                  raised |-> FALSE, has_ts |-> hasTs, retrieved |-> Len(rs),
                  bundle |-> bundle]
            ELSE OnFailure(hasTs, called \o SendReply(hasTs, msg, FALSE),
                           Len(rs), bundle, d2)

AcceptedRuns(rag) ==
    {handle_accepted(rag, ld, sr, out, d1, d2) :
        ld \in LoadingOutcomes, sr \in SearchReturns, out \in HandlerModelOutcomes,
        d1 \in BOOLEAN, d2 \in BOOLEAN}

(***************************************************************************)
(* The three delivery paths from retrieval to the answer (specification    *)
(* SpecPaths): generate_answer called directly, the web pipeline           *)
(* WebRAGService.process_query, and the Slack handler.                     *)
(***************************************************************************)
\* what gemini_service.generate_answer_async does in the web pipeline: it
\* raises, or behaves as generate_answer
AsyncOutcomes == [raises : BOOLEAN, out : HandlerModelOutcomes]

NoResultsAnswer == "no_results"

\* a faulty variant: the web pipeline hands an empty result list to the generator
WebNoResults_Generate(filtered_results) == FALSE

\* web/service.py:85: if not filtered_results
WebNoResults(filtered_results) == filtered_results = <<>>

\* web/service.py:66-132: WebRAGService.process_query; the bundle is the
\* WebRAGResult (answer, confidence, sources), sources having one entry per
\* retrieved result (_extract_sources)
process_query(sr, gen) ==
    LET search_results_ == sr.results
        rag_response == generate_answer(search_results_, ConfigBudget, gen.out)
    IN IF sr.raises
       THEN [via |-> "web", generator |-> TRUE, raised |-> TRUE, retrieved |-> -1,
             model_calls |-> 0, generate_calls |-> 0, answer |-> "none", bundle |-> NoBundle]
       ELSE IF WebNoResults(search_results_)
       THEN [via |-> "web", generator |-> TRUE, raised |-> FALSE, retrieved |-> 0,
             model_calls |-> 0, generate_calls |-> 0, answer |-> NoResultsAnswer,
             bundle |-> [answer |-> NoResultsAnswer, confidence |-> Zero,
                         sources |-> <<>>]]
       ELSE IF gen.raises
       THEN [via |-> "web", generator |-> TRUE, raised |-> TRUE,
             retrieved |-> Len(search_results_), model_calls |-> 1, generate_calls |-> 1, answer |-> "none",
             bundle |-> NoBundle]
       ELSE [via |-> "web", generator |-> TRUE, raised |-> FALSE,
             retrieved |-> Len(search_results_), model_calls |-> rag_response.model_calls, generate_calls |-> 1,
             answer |-> rag_response.answer,
             bundle |-> [answer |-> rag_response.answer,
                         confidence |-> rag_response.confidence_score,
                         sources |-> search_results_]]

NoDelivery == [via |-> "none"]

\* the result lists generate_answer is called with
DirectLists ==
    {<<>>} \cup {<<r>> : r \in ResultPool} \cup {<<r, q>> : r \in ResultPool, q \in ResultPool}

InitPaths ==
    /\ delivery = NoDelivery
    /\ IdlePathsRest

\* generate_answer is called with a result list
DirectGenerate ==
    /\ \E rs \in DirectLists, b \in Budgets, out \in ModelOutcomes :
         LET r == generate_answer(rs, b, out)
         IN delivery' = [via |-> "generate_answer", generator |-> TRUE,
                         raised |-> FALSE, retrieved |-> Len(rs),
                         model_calls |-> r.model_calls, generate_calls |-> 1,
                         answer |-> r.answer, bundle |-> r]
    /\ UNCHANGED pathsRest

\* one query goes through the web pipeline
WebProcessQuery ==
    /\ \E sr \in SearchReturns, gen \in AsyncOutcomes :
         delivery' = process_query(sr, gen)
    /\ UNCHANGED pathsRest

\* one accepted request goes through the Slack handler; answer is the message
\* of the first send after the retrieval call
SlackHandleQuery ==
    /\ \E rag \in BOOLEAN : \E r \in AcceptedRuns(rag) :
         LET gens == Cardinality({i \in 1..Len(r.log) : r.log[i].op = "generate"})
             sends == SelectSeq(r.log, LAMBDA c : c.op \in {"respond", "chat_update"}
                                                   /\ c.msg # "loading")
         IN delivery' = [via |-> "slack", generator |-> rag, raised |-> r.raised,
                         retrieved |-> r.retrieved, log |-> r.log,
                         model_calls |-> IF gens > 0 THEN r.bundle.model_calls ELSE 0,
                         generate_calls |-> gens,
                         answer |-> IF sends = <<>> THEN "none" ELSE sends[1].msg,
                         bundle |-> NoBundle]
    /\ UNCHANGED pathsRest

NextPaths == DirectGenerate \/ WebProcessQuery \/ SlackHandleQuery

SpecPaths == InitPaths /\ [][NextPaths]_vars

\* C11: whenever retrieval returned zero results, the generative model is not
\* called on any of the three paths (nor is the generator, on the web and Slack
\* paths), the answer is the no-results message, and the answer bundle, where the
\* path builds one, has confidence 0.0, no sources and has_citations false.
C11_NoResultsNoModelCall ==
    (delivery.via # "none" /\ delivery.retrieved = 0)
        => /\ delivery.model_calls = 0
           /\ delivery.via # "generate_answer" => delivery.generate_calls = 0
           /\ delivery.answer = NoResultsAnswer
           /\ delivery.via = "web" =>
                /\ delivery.bundle.answer = NoResultsAnswer
                /\ delivery.bundle.confidence = Zero
                /\ delivery.bundle.sources = <<>>
           /\ delivery.via = "generate_answer" =>
                /\ delivery.bundle.answer = NoResultsAnswer
                /\ delivery.bundle.confidence_score = Zero
                /\ delivery.bundle.sources = <<>>
                /\ ~delivery.bundle.has_citations

\* C11 witness: the Slack handler of a bot with a generative service got zero
\* results and replied
C11_Witness ==
    /\ delivery.via = "slack"
    /\ delivery.generator
    /\ delivery.retrieved = 0
    /\ ~delivery.raised
    /\ delivery.answer = NoResultsAnswer

(***************************************************************************)
(* Failures of the retrieval backend as the core client sees them          *)
(* (specification SpecConn).  search_async tells a "not implemented"       *)
(* condition from any other failure by the text of the exception, so the   *)
(* model keeps that text: the message of an HTTP error ends with the       *)
(* request URL, which holds the configured project id.                     *)
(***************************************************************************)
MaxCalls == 2

UpperCase == <<"A", "B", "C", "D", "E", "F", "G", "H", "I", "J", "K", "L", "M",
               "N", "O", "P", "Q", "R", "S", "T", "U", "V", "W", "X", "Y", "Z">>
LowerCase == <<"a", "b", "c", "d", "e", "f", "g", "h", "i", "j", "k", "l", "m",
               "n", "o", "p", "q", "r", "s", "t", "u", "v", "w", "x", "y", "z">>

LowerChar(c) ==
    IF \E k \in 1..26 : UpperCase[k] = c
    THEN LowerCase[CHOOSE k \in 1..26 : UpperCase[k] = c]
    ELSE c

\* str.lower
Lower(s) == [k \in 1..Len(s) |-> LowerChar(s[k])]

ProjectIds == {<<"d", "o", "c", "s">>, <<"d", "o", "c", "s", "-", "5", "0", "1">>}

\* the request URL (core/vertex_rag_client.py:85-88), shortened to its project part
Url(project) == <<"/", "p", "r", "o", "j", "e", "c", "t", "s", "/">> \o project

\* response.raise_for_status(): "<status> Server Error: <reason> for url: <url>"
HTTPError(status_line, project) ==
    status_line \o <<" ", "f", "o", "r", " ", "u", "r", "l", ":", " ">> \o Url(project)

Status501 == <<"5", "0", "1", " ", "N", "o", "t", " ", "I", "m", "p", "l", "e", "m", "e", "n", "t", "e", "d">>
Status500 == <<"5", "0", "0", " ", "I", "n", "t", "e", "r", "n", "a", "l">>
Status403 == <<"4", "0", "3", " ", "F", "o", "r", "b", "i", "d", "d", "e", "n">>
Unimplemented == <<"M", "e", "t", "h", "o", "d", " ", "n", "o", "t", " ", "i", "m", "p", "l", "e", "m", "e", "n", "t", "e", "d">>
ReadTimedOut == <<"R", "e", "a", "d", " ", "t", "i", "m", "e", "d", " ", "o", "u", "t">>

\* what the backend does with one request of a client configured for `project`:
\* it answers (with 0 or 1 contexts), reports "not implemented", or fails otherwise
BackendBehaviours(project) ==
    {[condition |-> "ok", contexts |-> n, message |-> <<>>] : n \in 0..1}
    \cup {[condition |-> "not_implemented", contexts |-> 0, message |-> m] :
            m \in {HTTPError(Status501, project), Unimplemented}}
    \cup {[condition |-> "other", contexts |-> 0, message |-> m] :
            m \in {HTTPError(Status500, project), HTTPError(Status403, project),
                   ReadTimedOut}}

NotImplementedText == <<"n", "o", "t", " ", "i", "m", "p", "l", "e", "m", "e", "n", "t", "e", "d">>
Text501 == <<"5", "0", "1">>

\* core/vertex_rag_client.py:166 and 203:
\* "not implemented" in str(e).lower() or "501" in str(e)
IsNotImplemented(message) ==
    Contains(Lower(message), NotImplementedText) \/ Contains(message, Text501)

\* core/vertex_rag_client.py:74-170: VertexRAGClient.search_async
search_async(b) ==
    IF b.condition = "ok"
    THEN [raised |-> FALSE, results |-> b.contexts, message |-> <<>>]
    ELSE IF IsNotImplemented(b.message)
    THEN [raised |-> FALSE, results |-> 0, message |-> <<>>]
    ELSE [raised |-> TRUE, results |-> 0, message |-> b.message]

\* core/vertex_rag_client.py:192-208: VertexRAGClient.test_connection_async
test_connection_async(b) ==
    LET r == search_async(b)
    IN IF ~r.raised THEN TRUE
       ELSE IF IsNotImplemented(r.message) THEN TRUE
       ELSE FALSE

InitConn ==
    /\ project_id \in ProjectIds
    /\ conn_log = <<>>
    /\ IdleConnRest

\* results = await client.search_async(query, ...)
SearchAsync ==
    /\ Len(conn_log) < MaxCalls
    /\ \E b \in BackendBehaviours(project_id) :
         LET r == search_async(b)
         IN conn_log' = Append(conn_log,
                [op |-> "search_async", backend |-> b, raised |-> r.raised,
                 results |-> r.results, connected |-> FALSE])
    /\ UNCHANGED project_id
    /\ UNCHANGED connRest

\* ok = await client.test_connection_async()
TestConnectionAsync ==
    /\ Len(conn_log) < MaxCalls
    /\ \E b \in BackendBehaviours(project_id) :
         conn_log' = Append(conn_log,
                [op |-> "test_connection_async", backend |-> b, raised |-> FALSE,
                 results |-> 0, connected |-> test_connection_async(b)])
    /\ UNCHANGED project_id
    /\ UNCHANGED connRest

NextConn == SearchAsync \/ TestConnectionAsync

SpecConn == InitConn /\ [][NextConn]_vars

\* C12: a "not implemented" condition makes search_async return an empty list
\* and test_connection_async return true; any other failure of the backend or
\* the transport is raised by search_async and makes test_connection_async
\* return false.
C12_NotImplementedOnly ==
    \A k \in 1..Len(conn_log) :
        LET c == conn_log[k]
        IN /\ (c.backend.condition = "not_implemented" /\ c.op = "search_async")
                => (~c.raised /\ c.results = 0)
           /\ (c.backend.condition = "not_implemented" /\ c.op = "test_connection_async")
                => c.connected
           /\ (c.backend.condition = "other" /\ c.op = "search_async") => c.raised
           /\ (c.backend.condition = "other" /\ c.op = "test_connection_async")
                => ~c.connected

(***************************************************************************)
(* Failure of the model call in generate_answer (specification SpecGen).   *)
(***************************************************************************)
\* C13: when the model call raises or returns empty text after a non-empty
\* context was built, the response has has_citations false, its sources are the
\* results included in the context, and its confidence_score is their mean.
C13_FallbackKeepsUsedSources ==
    (response.answer \in {"error", "trouble"})
        => /\ ~response.has_citations
           /\ Len(Included) >= 1
           /\ response.sources = Included
           /\ response.confidence_score.num * Len(Included)
                = response.confidence_score.den * SumConfidence(Included)

(***************************************************************************)
(* The context assembled by generate_answer as a prefix of its input       *)
(* (specification SpecGen).                                                *)
(***************************************************************************)
\* the characters the blocks of the first n results take together
RECURSIVE PrefixLength(_, _)
PrefixLength(rs, n) ==
    IF n = 0 THEN 0 ELSE PrefixLength(rs, n - 1) + BlockLen(n, rs[n])

\* the longest prefix of rs whose blocks fit in the budget together
LongestFittingPrefix(rs, max_context_length) ==
    LET fitting == {n \in 0..Len(rs) : PrefixLength(rs, n) <= max_context_length}
        longest == CHOOSE n \in fitting : \A m \in fitting : m <= n
    IN SubSeq(rs, 1, longest)

\* C22: the sources of the response are exactly the longest prefix of the input
\* results whose blocks fit in max_context_length together: assembly stops at
\* the first block that overflows, includes no result after a dropped one, and
\* keeps the input order.
C22_SourcesGreedyPrefix ==
    (response.answer # "pending" /\ search_results # <<>>)
        => response.sources
             = LongestFittingPrefix(search_results, response.max_context_length)

\* C23: when the results are not empty and not even the first block fits, the
\* response is the fixed "too lengthy" message with no sources, confidence 0.0
\* and has_citations false, and the model is not called.
C23_TooLengthy ==
    (/\ response.answer # "pending"
     /\ search_results # <<>>
     /\ BlockLen(1, search_results[1]) > response.max_context_length)
        => /\ response.answer = "too_lengthy"
           /\ response.sources = <<>>
           /\ response.confidence_score = Zero
           /\ ~response.has_citations
           /\ response.model_calls = 0

\* C23 witness: three results, a budget of 25 characters, and the first block
\* alone has more
C23_Witness ==
    /\ response.answer = "too_lengthy"
    /\ Len(search_results) = 3
    /\ response.max_context_length = BudgetStep
    /\ BlockLen(1, search_results[1]) > BudgetStep

(***************************************************************************)
(* The bot from construction to request handling (specification SpecBot):  *)
(* start() tests its two services, then the event handlers run             *)
(* _handle_query, whose platform and service calls may raise.  The clock   *)
(* stands still, so a user is rejected once Limit requests were accepted.  *)
(***************************************************************************)
\* a connection test returns True or False, or raises
TestOutcomes == {"true", "false", "raise"}

\* handle_mention, handle_dm, handle_ask_command
Entries == {"mention", "dm", "command"}

\* a faulty variant: a failed test of the generative service leaves it enabled
GeminiEnabled_Keep(rag, test) == rag

\* slack_bot.py:492-502: rag_service after the test of the generative service
GeminiEnabled(rag, test) == rag /\ test = "true"

\* slack_bot.py:148-152 and 157-161: the one reply of a request that fails a check
CheckReply(limiter, rl, msg) ==
    {[limiter |-> limiter, count |-> rl.count, reset |-> rl.reset,
      log |-> <<Call("respond", msg, ok)>>,
      state |-> IF ok THEN "replied" ELSE "received",
      raised |-> ~ok, has_ts |-> FALSE, retrieved |-> -1] : ok \in BOOLEAN}

\* slack_bot.py:141-251: ResearchPaperBot._handle_query, every call of which may
\* raise; the set of its possible runs
handle_request(u, q, t, cnt, rst, rag) ==
    LET rl == check_rate_limit(u, t, cnt, rst)
        cq == clean_query(q)
    IN IF ~rl.ok THEN CheckReply("rejected", rl, "rate_limit")
       ELSE IF TooShort(cq) THEN CheckReply("accepted", rl, "guidance")
       ELSE {[limiter |-> "accepted", count |-> rl.count, reset |-> rl.reset,
              log |-> r.log, state |-> r.state, raised |-> r.raised,
              has_ts |-> r.has_ts, retrieved |-> r.retrieved] :
                 r \in AcceptedRuns(rag)}

\* slack_bot.py:89-139: what the event handler does with an exception of
\* _handle_query: the slash command's thread catches it and tries one more
\* respond (whose own failure it ignores); handle_mention and handle_dm let it
\* propagate
handle_event(entry, run, ok) ==
    IF run.raised /\ entry = "command"
    THEN [wrapper_log |-> <<Call("respond", "error", ok)>>, escaped |-> FALSE]
    ELSE [wrapper_log |-> <<>>, escaped |-> run.raised]

NotStarted == [retrieval |-> "not_run", gemini |-> "not_run", transport |-> "not_started"]

NoneHandled ==
    [entry |-> "none", limiter |-> "not_consulted", log |-> <<>>, state |-> "received",
     raised |-> FALSE, has_ts |-> FALSE, retrieved |-> -1, wrapper_log |-> <<>>,
     escaped |-> FALSE]

InitBot ==
    /\ user_query_count = EmptyDict
    /\ user_last_reset = EmptyDict
    /\ now = 0
    /\ rag_service \in BOOLEAN
    /\ phase = "constructed"
    /\ startup = NotStarted
    /\ request = NoneHandled
    /\ IdleBotRest

\* slack_bot.py:479-541: ResearchPaperBot.start
Start ==
    /\ phase = "constructed"
    /\ \E rt \in TestOutcomes, gt \in TestOutcomes, transport_ok \in BOOLEAN :
         IF rt # "true"
         THEN /\ phase' = "refused"
              /\ startup' = [retrieval |-> rt, gemini |-> "not_run",
                             transport |-> "not_started"]
              /\ UNCHANGED rag_service
         ELSE /\ rag_service' = GeminiEnabled(rag_service, gt)
              /\ startup' = [retrieval |-> rt,
                             gemini |-> IF rag_service THEN gt ELSE "not_run",
                             transport |-> IF transport_ok THEN "started" ELSE "failed"]
              /\ phase' = IF transport_ok THEN "running" ELSE "failed"
    /\ UNCHANGED <<rlVars, request>>
    /\ UNCHANGED botRest

\* one event is handled from start to end
HandleRequest ==
    /\ phase = "running"
    /\ \E entry \in Entries, q \in Queries, ok \in BOOLEAN :
         \E r \in handle_request(TheUser, q, now, user_query_count, user_last_reset,
                                 rag_service) :
           LET h == handle_event(entry, r, ok)
           IN /\ user_query_count' = r.count
              /\ user_last_reset' = r.reset
              /\ request' = [entry |-> entry, limiter |-> r.limiter, log |-> r.log,
                             state |-> r.state, raised |-> r.raised,
                             has_ts |-> r.has_ts, retrieved |-> r.retrieved,
                             wrapper_log |-> h.wrapper_log, escaped |-> h.escaped]
    /\ UNCHANGED <<now, rag_service, phase, startup>>
    /\ UNCHANGED botRest

NextBot == Start \/ HandleRequest

SpecBot == InitBot /\ [][NextBot]_vars

Handled == request.entry # "none"

\* the request passed the rate-limit and length checks
PassedChecks == Handled /\ request.log[1].msg = "loading"

OutcomeMessages == {"answer", "results", "no_results", "error"}

\* positions in the request's log of the calls of operation op
At(op) == {i \in 1..Len(request.log) : request.log[i].op = op}

\* positions of the sends whose message is in msgs and that returned
DeliveredAt(msgs) ==
    {i \in 1..Len(request.log) : request.log[i].msg \in msgs /\ request.log[i].ok}

\* C14: whichever step of a request fails, _handle_query ends in `replied` or
\* `errored` and no exception leaves it.
C14_NoEscape ==
    Handled => (~request.raised /\ request.state \in {"replied", "errored"})

\* C15: a request that passed the checks delivers exactly one placeholder and
\* then exactly one outcome message, by chat_update when the placeholder send
\* returned a ts and as a new message otherwise.
C15_OnePlaceholderOneOutcome ==
    PassedChecks
        => /\ Cardinality(DeliveredAt({"loading"})) = 1
           /\ Cardinality(DeliveredAt(OutcomeMessages)) = 1
           /\ \A i \in 1..Len(request.log) :
                request.log[i].msg \in OutcomeMessages
                    => request.log[i].op = (IF request.has_ts THEN "chat_update"
                                            ELSE "respond")

\* C16: the generator is called at most once, and only after the retrieval call
\* of the request returned at least one result; when the retrieval call raises,
\* the generator is not called, the error reply is sent and the state is errored.
C16_Sequential ==
    Handled
        => /\ Cardinality(At("generate")) <= 1
           /\ Cardinality(At("search")) <= 1
           /\ \A i \in At("generate") :
                /\ \E j \in At("search") : j < i /\ request.log[j].ok
                /\ request.retrieved >= 1
           /\ \A j \in At("search") :
                ~request.log[j].ok
                    => /\ At("generate") = {}
                       /\ request.state = "errored"
                       /\ \E k \in (j + 1)..Len(request.log) :
                            request.log[k].msg = "error"

\* C16 witness: a request whose generator call follows a retrieval call that
\* returned two results, and whose answer was delivered
C16_Witness ==
    /\ Handled
    /\ At("generate") # {}
    /\ request.retrieved = 2
    /\ request.state = "replied"

\* C19: start() refuses to start, no transport started, when the retrieval test
\* does not pass; when it passes and the test of the generative service fails or
\* raises, start() goes on with rag_service disabled, and every request accepted
\* afterwards that retrieves a result is answered with the plain search results
\* without any call of the generator.
C19_StartupGates ==
    /\ startup.retrieval \in {"false", "raise"}
         => /\ phase = "refused"
            /\ startup.transport = "not_started"
            /\ ~Handled
    /\ (startup.retrieval = "true" /\ startup.gemini \in {"false", "raise"})
         => /\ phase # "refused"
            /\ ~rag_service
            /\ (PassedChecks /\ request.retrieved >= 1)
                 => /\ At("generate") = {}
                    /\ \E i \in 1..Len(request.log) :
                         /\ request.log[i].msg = "results"
                         /\ \A k \in 1..(i - 1) : request.log[k].msg \notin OutcomeMessages

\* C19 witness: the test of the generative service raised at startup and a later
\* request with results was answered
C19_Witness ==
    /\ startup.gemini = "raise"
    /\ PassedChecks
    /\ request.retrieved >= 1
    /\ request.state = "replied"

(***************************************************************************)
(* ModernErrorHandler.robust_api_call (specification SpecRetry): the       *)
(* tenacity decorator calls the wrapped coroutine again after a transient  *)
(* error, up to stop_after_attempt(3) attempts, with reraise=True.         *)
(***************************************************************************)
MaxApiCalls == 1

\* error_handler.py:26: stop=stop_after_attempt(3)
StopAfterAttempt == 3

\* what one attempt of the wrapped call does: returns, or raises an exception
\* of one of these types
AttemptOutcomes ==
    {"returns", "ServiceUnavailable", "RetryError", "DeadlineExceeded", "ValueError"}

\* a faulty variant: every exception is retried
retry_if_exception_type_Any(e) == e # "returns"

\* error_handler.py:28: retry=retry_if_exception_type((ServiceUnavailable, RetryError))
retry_if_exception_type(e) == e \in {"ServiceUnavailable", "RetryError"}

\* error_handler.py:26: the stop condition, on the number of attempts made
stop_after_attempt(attempt_number) == attempt_number >= StopAfterAttempt

\* where the call stands after an attempt with outcome e, the attempt_number-th
\* (reraise=True: when the attempts are used up the last exception is raised)
AfterAttempt(e, attempt_number) ==
    IF e = "returns" THEN [at |-> "returned", exception |-> "none"]
    ELSE IF ~retry_if_exception_type(e) THEN [at |-> "raised", exception |-> e]
    ELSE IF stop_after_attempt(attempt_number) THEN [at |-> "raised", exception |-> e]
    ELSE [at |-> "waiting", exception |-> "none"]

Calling == [at |-> "calling", exception |-> "none"]

InitRetry ==
    /\ attempt_log = <<>>
    /\ call_status = Calling
    /\ finished_calls = <<>>
    /\ IdleRetryRest

\* error_handler.py:33-37: one attempt: await func(*args, **kwargs)
Attempt ==
    /\ call_status.at = "calling"
    /\ \E e \in AttemptOutcomes :
         /\ attempt_log' = Append(attempt_log, e)
         /\ call_status' = AfterAttempt(e, Len(attempt_log) + 1)
    /\ UNCHANGED finished_calls
    /\ UNCHANGED retryRest

\* error_handler.py:27: wait_exponential elapses and the call is attempted again
Backoff ==
    /\ call_status.at = "waiting"
    /\ call_status' = Calling
    /\ UNCHANGED <<attempt_log, finished_calls>>
    /\ UNCHANGED retryRest

\* the caller calls robust_api_call again
CallAgain ==
    /\ call_status.at \in {"returned", "raised"}
    /\ Len(finished_calls) < MaxApiCalls
    /\ finished_calls' = Append(finished_calls,
                                [attempts |-> attempt_log, status |-> call_status])
    /\ attempt_log' = <<>>
    /\ call_status' = Calling
    /\ UNCHANGED retryRest

NextRetry == Attempt \/ Backoff \/ CallAgain

SpecRetry == InitRetry /\ [][NextRetry]_vars

IsTransient(e) == e \in {"ServiceUnavailable", "RetryError"}

\* C17: robust_api_call makes at least 1 and at most 3 attempts; every attempt
\* but the last raised a transient error; it returns at the first attempt that
\* returns, raises at once what a non-transient attempt raised, and raises the
\* third transient error.
C17_BoundedRetry ==
    /\ Len(attempt_log) <= 3
    /\ \A i \in 1..(Len(attempt_log) - 1) : IsTransient(attempt_log[i])
    /\ call_status.at \in {"returned", "raised"} => Len(attempt_log) >= 1
    /\ call_status.at = "returned" => attempt_log[Len(attempt_log)] = "returns"
    /\ call_status.at = "raised"
         => /\ attempt_log[Len(attempt_log)] # "returns"
            /\ call_status.exception = attempt_log[Len(attempt_log)]
            /\ IsTransient(call_status.exception) => Len(attempt_log) = 3
    /\ call_status.at = "waiting"
         => /\ IsTransient(attempt_log[Len(attempt_log)])
            /\ Len(attempt_log) < 3
    /\ (call_status.at = "calling" /\ attempt_log # <<>>)
         => /\ IsTransient(attempt_log[Len(attempt_log)])
            /\ Len(attempt_log) < 3

\* C17 witness: three transient failures in a row, the third one raised
C17_Witness ==
    /\ Len(attempt_log) = 3
    /\ call_status = [at |-> "raised", exception |-> "ServiceUnavailable"]
    /\ attempt_log[1] = "RetryError"

(***************************************************************************)
(* ModernErrorHandler.handle_rag_error (specification SpecErr): the text   *)
(* of the error is any concatenation of up to MaxErrFrags fragments.       *)
(***************************************************************************)
MaxErrFrags == 2

Quota == <<"q", "u", "o", "t", "a">>
LimitWord == <<"l", "i", "m", "i", "t">>
Timeout == <<"t", "i", "m", "e", "o", "u", "t">>
Authentication == <<"a", "u", "t", "h", "e", "n", "t", "i", "c", "a", "t", "i", "o", "n">>
Unauthorized == <<"u", "n", "a", "u", "t", "h", "o", "r", "i", "z", "e", "d">>

ErrFragments == {
    Quota,
    <<"L", "I", "M", "I", "T">>,
    <<"l", "i", "m">>,
    <<"i", "t">>,
    <<"T", "i", "m", "e", "o", "u", "t">>,
    <<"t", "i", "m", "e", "d", " ", "o", "u", "t">>,
    Authentication,
    <<"U", "n", "a", "u", "t", "h", "o", "r", "i", "z", "e", "d">>,
    <<"a", "u", "t", "h">>,
    <<" ">>,
    <<"5", "0", "3">>
}

\* a faulty variant: the text is searched as it is
error_str_AsIs(error) == error

\* error_handler.py:57: error_str = str(error).lower()
error_str(error) == Lower(error)

\* error_handler.py:52-65: ModernErrorHandler.handle_rag_error; the messages
\* are named capacity ("Service capacity reached"), timeout ("Search timed
\* out"), authentication ("Authentication issue") and unavailable ("Search
\* service unavailable")
handle_rag_error(error) ==
    LET e == error_str(error)
    IN IF Contains(e, Quota) \/ Contains(e, LimitWord) THEN "capacity"
       ELSE IF Contains(e, Timeout) THEN "timeout"
       ELSE IF Contains(e, Authentication) \/ Contains(e, Unauthorized)
       THEN "authentication"
       ELSE "unavailable"

InitErr ==
    /\ error_text = <<>>
    /\ error_frags = 0
    /\ error_message = "pending"
    /\ IdleErrRest

\* the error's text grows by one fragment
AppendErrFragment ==
    /\ error_message = "pending"
    /\ error_frags < MaxErrFrags
    /\ \E f \in ErrFragments : error_text' = error_text \o f
    /\ error_frags' = error_frags + 1
    /\ UNCHANGED error_message
    /\ UNCHANGED errRest

\* message = ModernErrorHandler.handle_rag_error(error, context)
HandleRagError ==
    /\ error_message = "pending"
    /\ error_message' = handle_rag_error(error_text)
    /\ UNCHANGED <<error_text, error_frags>>
    /\ UNCHANGED errRest

NextErr == AppendErrFragment \/ HandleRagError

SpecErr == InitErr /\ [][NextErr]_vars

\* the text holds the word at some position, letter case ignored
HasWord(t, w) ==
    \E i \in 1..(Len(t) - Len(w) + 1) :
        \A k \in 1..Len(w) : LowerChar(t[i + k - 1]) = w[k]

\* C18: every error text gets exactly one message: capacity if it holds 'quota'
\* or 'limit' in any letter case; otherwise timeout if it holds 'timeout';
\* otherwise authentication if it holds 'authentication' or 'unauthorized';
\* otherwise unavailable.
C18_FirstMatch ==
    LET cap == HasWord(error_text, Quota) \/ HasWord(error_text, LimitWord)
        tmo == HasWord(error_text, Timeout)
        auth == HasWord(error_text, Authentication) \/ HasWord(error_text, Unauthorized)
    IN error_message # "pending"
        => /\ error_message \in {"capacity", "timeout", "authentication", "unavailable"}
           /\ error_message = "capacity" <=> cap
           /\ error_message = "timeout" <=> (~cap /\ tmo)
           /\ error_message = "authentication" <=> (~cap /\ ~tmo /\ auth)
           /\ error_message = "unavailable" <=> (~cap /\ ~tmo /\ ~auth)

\* C18 witness: a text with 'Timeout' before 'LIMIT' gets the capacity message
C18_Witness ==
    /\ error_message = "capacity"
    /\ HasWord(error_text, Timeout)
    /\ ~HasWord(error_text, Quota)
    /\ Contains(error_text, <<"L", "I", "M", "I", "T">>)

(***************************************************************************)
(* OriginValidationMiddleware.dispatch (specification SpecMw): one request *)
(* with any of the paths, methods and header values below is dispatched by *)
(* a middleware configured with one of the allowlists.                     *)
(***************************************************************************)
ApiHealth == <<"/", "a", "p", "i", "/", "h", "e", "a", "l", "t", "h">>
ApiDocs == <<"/", "a", "p", "i", "/", "d", "o", "c", "s">>
ApiRedoc == <<"/", "a", "p", "i", "/", "r", "e", "d", "o", "c">>
ApiOpenapi == <<"/", "a", "p", "i", "/", "o", "p", "e", "n", "a", "p", "i", ".", "j", "s", "o", "n">>
StaticPrefix == <<"/", "s", "t", "a", "t", "i", "c", "/">>
ApiPrefix == <<"/", "a", "p", "i", "/">>

\* web/middleware.py:27
ExemptPaths == {ApiHealth, ApiDocs, ApiRedoc, ApiOpenapi}

RequestPaths == {
    ApiHealth, ApiDocs, ApiRedoc, ApiOpenapi,
    <<"/", "a", "p", "i", "/", "c", "h", "a", "t">>,
    <<"/", "a", "p", "i", "/", "h", "e", "a", "l", "t", "h", "/">>,
    <<"/", "a", "p", "i">>,
    <<"/", "s", "t", "a", "t", "i", "c", "/", "w", ".", "j", "s">>,
    <<"/", "s", "t", "a", "t", "i", "c">>,
    <<"/">>
}

Methods == {"GET", "POST", "OPTIONS"}

Bucket == <<"h", "t", "t", "p", "s", ":", "/", "/", "s", ".", "i", "o", "/", "w">>
BroadOrigin == <<"h", "t", "t", "p", "s", ":", "/", "/", "s", ".", "i", "o">>
OtherSite == <<"h", "t", "t", "p", "s", ":", "/", "/", "m", ".", "i", "o">>

\* the allowlists a middleware is constructed with
AllowLists == {<<>>, <<Bucket>>, <<BroadOrigin>>, <<OtherSite, Bucket>>}

\* a header is absent, or present with a value
Absent == [present |-> FALSE, value |-> <<>>]
Header(v) == [present |-> TRUE, value |-> v]

HeaderValues == {
    Absent,
    Header(<<>>),
    Header(Bucket),
    Header(BroadOrigin),
    Header(OtherSite),
    Header(Bucket \o <<"/", "d", ".", "h", "t", "m", "l">>),
    Header(BroadOrigin \o <<"/", "u", "/", "t", ".", "h", "t", "m", "l">>)
}

Requests ==
    [path : RequestPaths, method : Methods, origin : HeaderValues,
     referer : HeaderValues, widget_url : HeaderValues]

\* request.headers.get(name, default): the value, or the default when absent
GetHeader(h, default) == IF h.present THEN h.value ELSE default

InList(v, list) == \E k \in 1..Len(list) : list[k] = v

\* for allowed_origin in self.allowed_origins: if v.startswith(allowed_origin)
StartsWithAllowed(v, list) == \E k \in 1..Len(list) : StartsWith(v, list[k])

\* a faulty variant: the Referer is not looked at
RefererPasses_Never(referer, list) == FALSE

\* web/middleware.py:58-67: the Referer fallback
RefererPasses(referer, list) == referer # <<>> /\ StartsWithAllowed(referer, list)

Forward == [status |-> 200, forwarded |-> TRUE]
Forbidden == [status |-> 403, forwarded |-> FALSE]

\* web/middleware.py:22-86: OriginValidationMiddleware.dispatch; an absent
\* Origin is None, an absent Referer or X-Widget-URL the empty string
dispatch(req, list) ==
    LET origin == req.origin
        referer == GetHeader(req.referer, <<>>)
        widget_url == GetHeader(req.widget_url, <<>>)
    IN IF req.path \in ExemptPaths THEN Forward
       ELSE IF StartsWith(req.path, StaticPrefix) THEN Forward
       ELSE IF StartsWith(req.path, ApiPrefix) /\ req.method # "OPTIONS"
       THEN IF origin.present /\ origin.value # <<>> /\ InList(origin.value, list)
            THEN Forward
            ELSE IF widget_url # <<>> /\ StartsWithAllowed(widget_url, list)
            THEN Forward
            ELSE IF RefererPasses(referer, list) THEN Forward
            ELSE Forbidden
       ELSE Forward

NoResponse == [status |-> 0, forwarded |-> FALSE]

InitMw ==
    /\ allowed_origins \in AllowLists
    /\ http_request \in Requests
    /\ http_response = NoResponse
    /\ downstream_calls = 0
    /\ IdleMwRest

\* response = await middleware.dispatch(request, call_next)
Dispatch ==
    /\ http_response = NoResponse
    /\ http_response' = dispatch(http_request, allowed_origins)
    /\ downstream_calls' = IF dispatch(http_request, allowed_origins).forwarded
                           THEN downstream_calls + 1 ELSE downstream_calls
    /\ UNCHANGED <<allowed_origins, http_request>>
    /\ UNCHANGED mwRest

NextMw == Dispatch

SpecMw == InitMw /\ [][NextMw]_vars

\* the header is present and its value begins with an entry of the allowlist
HeaderStartsWithAllowed(h) ==
    h.present /\ \E k \in 1..Len(allowed_origins) : StartsWith(h.value, allowed_origins[k])

\* C20: the request is forwarded if and only if its path is /api/health or a
\* docs path, or is under /static/ or not under /api/, or its method is OPTIONS,
\* or its Origin equals an allowed entry, or its X-Widget-URL or Referer starts
\* with an allowed entry; otherwise the response is 403 and the downstream
\* application is not called.
C20_ForwardIff ==
    LET r == http_request
        allowed ==
            \/ r.path \in {ApiHealth, ApiDocs, ApiRedoc, ApiOpenapi}
            \/ StartsWith(r.path, StaticPrefix)
            \/ ~StartsWith(r.path, ApiPrefix)
            \/ r.method = "OPTIONS"
            \/ r.origin.present /\ \E k \in 1..Len(allowed_origins) :
                                      allowed_origins[k] = r.origin.value
            \/ HeaderStartsWithAllowed(r.widget_url)
            \/ HeaderStartsWithAllowed(r.referer)
    IN http_response # NoResponse
        => /\ http_response.forwarded <=> allowed
           /\ http_response.forwarded => downstream_calls = 1
           /\ ~http_response.forwarded
                => (http_response.status = 403 /\ downstream_calls = 0)

\* C20 witness: a POST to /api/chat with the broad Origin and no X-Widget-URL
\* passes on its Referer, which begins with the allowed bucket URL
C20_Witness ==
    /\ http_response = Forward
    /\ http_request.path = <<"/", "a", "p", "i", "/", "c", "h", "a", "t">>
    /\ http_request.method = "POST"
    /\ http_request.origin = Header(BroadOrigin)
    /\ ~http_request.widget_url.present
    /\ http_request.referer = Header(Bucket \o <<"/", "d", ".", "h", "t", "m", "l">>)
    /\ allowed_origins = <<Bucket>>

(***************************************************************************)
(* The middleware with the allowlist of the deployment, the authorized     *)
(* bucket URLs of web/config.py (specification SpecBucket): POST /api/chat *)
(* requests whose X-Widget-URL and Referer are URLs of pages               *)
(* https://<host>/<bucket>/<page>.                                         *)
(***************************************************************************)
Scheme == <<"h", "t", "t", "p", "s", ":", "/", "/">>
Slash == <<"/">>
ApiChat == <<"/", "a", "p", "i", "/", "c", "h", "a", "t">>

\* the storage host, another host, a sub-domain of the storage host, and the
\* storage host in upper case
PageHosts == {<<"s", ".", "i", "o">>, <<"m", ".", "i", "o">>, <<"e", ".", "s", ".", "i", "o">>, <<"S", ".", "I", "O">>}

\* bucket names: the authorized w and v, and others, two of which begin with w
BucketNames == {<<"w">>, <<"v">>, <<"u">>, <<"w", "2">>, <<"w", "-", "x">>, <<"W">>}

PageNames == {<<"d", ".", "h", "t", "m", "l">>}

BucketUrl(host, bucket) == Scheme \o host \o Slash \o bucket

PageUrl(host, bucket, page) == BucketUrl(host, bucket) \o Slash \o page

SecondBucket == BucketUrl(<<"s", ".", "i", "o">>, <<"v">>)

\* web/config.py:34-36: allowed_bucket_urls, of one or two authorized buckets
BucketLists == {<<Bucket>>, <<Bucket, SecondBucket>>}

\* the pages of the buckets that are not in the list
UnauthorizedPages(list) ==
    {PageUrl(hb[1], hb[2], p) :
        hb \in {x \in PageHosts \X BucketNames :
                   ~InList(BucketUrl(x[1], x[2]), list)},
        p \in PageNames}

AllPages == {PageUrl(h, b, p) : h \in PageHosts, b \in BucketNames, p \in PageNames}

PageHeaders == {Absent} \cup {Header(u) : u \in AllPages}

ChatRequests ==
    [path : {ApiChat}, method : {"POST"},
     origin : {Absent, Header(BroadOrigin), Header(Bucket), Header(OtherSite)},
     referer : PageHeaders, widget_url : PageHeaders]

InitBucket ==
    /\ allowed_origins \in BucketLists
    /\ http_request \in ChatRequests
    /\ http_response = NoResponse
    /\ downstream_calls = 0
    /\ IdleMwRest

SpecBucket == InitBucket /\ [][NextMw]_vars

\* C21: with the allowlist of authorized bucket URLs, a POST /api/chat whose
\* Origin is not in the allowlist and whose X-Widget-URL and Referer are pages
\* of a bucket that is not authorized (another bucket name, another host, a
\* sub-domain, another letter case) gets an error status and the chat handler
\* is not called.
C21_OtherBucketsRejected ==
    (/\ http_response # NoResponse
     /\ ~(http_request.origin.present
          /\ InList(http_request.origin.value, allowed_origins))
     /\ http_request.widget_url \in {Header(u) : u \in UnauthorizedPages(allowed_origins)}
     /\ http_request.referer \in {Header(u) : u \in UnauthorizedPages(allowed_origins)})
        => /\ http_response.status >= 400
           /\ downstream_calls = 0

(***************************************************************************)
(* SlackBot._format_rag_response (specification SpecFmt).  A score is in   *)
(* hundredths; a block is given by its type and what its text shows.       *)
(***************************************************************************)
\* confidence scores around the two thresholds, and outside [0, 1]
FmtScores == {0 - 10, 0, 39, 40, 41, 69, 70, 71, 100, 150}

\* a source: its score and the form of its source_uri
FmtSources == [confidence_score : {39, 40, 70}, uri : {"", "gs", "http"}]

MaxFmtSources == 2

FmtSourceLists == UNION {[1..n -> FmtSources] : n \in 0..MaxFmtSources}

RAGResponses ==
    [answer : {"generated", "trouble"}, sources : FmtSourceLists,
     confidence_score : FmtScores, has_citations : BOOLEAN]

\* a faulty variant: the thresholds themselves count as the band below
confidence_emoji_Strict(score) ==
    IF score > 70 THEN "green" ELSE IF score > 40 THEN "yellow" ELSE "red"

\* slack_bot.py:374 and 421
confidence_emoji(score) ==
    IF score >= 70 THEN "green" ELSE IF score >= 40 THEN "yellow" ELSE "red"

Block(type, shows, emoji) == [type |-> type, shows |-> shows, emoji |-> emoji]

Divider == Block("divider", "", "")

\* slack_bot.py:420-459: the blocks of the i-th of n sources
SourceBlocks(result, i, n) ==
    <<Block("section", "source_title", confidence_emoji(result.confidence_score)),
      Block("section", "source_snippet", "")>>
    \o (IF result.uri # ""
        THEN <<Block("context", IF result.uri = "gs" THEN "source_file" ELSE "source_uri", "")>>
        ELSE <<>>)
    \o (IF i < n THEN <<Divider>> ELSE <<>>)

RECURSIVE SourcesBlocks(_, _)
SourcesBlocks(sources, i) ==
    IF i > Len(sources) THEN <<>>
    ELSE SourceBlocks(sources[i], i, Len(sources)) \o SourcesBlocks(sources, i + 1)

TipBlock == Block("context", "tip", "")

\* slack_bot.py:372-477
format_rag_response(r) ==
    <<Block("header", "answer_header", ""),
      Block("context", "confidence", confidence_emoji(r.confidence_score)),
      Divider,
      Block("section", "answer", "")>>
    \o (IF r.sources # <<>>
        THEN <<Divider, Block("header", "sources_header", "")>> \o SourcesBlocks(r.sources, 1)
        ELSE <<>>)
    \o <<Divider, TipBlock>>

NotFormatted == <<>>

InitFmt ==
    /\ shown_response \in RAGResponses
    /\ blocks = NotFormatted
    /\ IdleFmtRest

\* blocks = self._format_rag_response(query, rag_response)
FormatRagResponse ==
    /\ blocks = NotFormatted
    /\ blocks' = format_rag_response(shown_response)
    /\ UNCHANGED shown_response
    /\ UNCHANGED fmtRest

NextFmt == FormatRagResponse

SpecFmt == InitFmt /\ [][NextFmt]_vars

\* the indicator the blocks show for the answer
ShownIndicator == blocks[2].emoji

HasSourcesSection == \E k \in 1..Len(blocks) : blocks[k].shows = "sources_header"

\* C24: the confidence indicator follows from confidence_score alone (high from
\* 0.7, medium from 0.4 and below 0.7, low below 0.4), the last block is the
\* usage tip, the sources section is there only when the sources are not empty,
\* and the RAGResponse is as it was before the call.
C24_Formatting ==
    [][blocks' # blocks =>
         /\ shown_response' = shown_response
         /\ LET score == shown_response.confidence_score
            IN /\ (blocks'[2].emoji = "green") <=> (score >= 70)
               /\ (blocks'[2].emoji = "yellow") <=> (score >= 40 /\ score < 70)
               /\ (blocks'[2].emoji = "red") <=> (score < 40)
         /\ blocks'[Len(blocks')] = TipBlock
         /\ (\E k \in 1..Len(blocks') : blocks'[k].shows = "sources_header")
              => shown_response.sources # <<>>]_vars

\* C24 witness: a response whose score is the threshold 0.7 itself, formatted
\* with a sources section of two sources
C24_Witness ==
    /\ blocks # NotFormatted
    /\ shown_response.confidence_score = 70
    /\ Len(shown_response.sources) = 2
    /\ HasSourcesSection
    /\ ShownIndicator = "green"

(***************************************************************************)
(* ModernGeminiRAGService.generate_answer_async (specification SpecModern),*)
(* on the results and budgets of SpecGen.                                  *)
(***************************************************************************)
\* modern_gemini_rag.py:72: len(f"[Source {i}: {result.title}]\n{result.snippet}\n")
ChunkLen(i, r) == 1 + Len(SourceToken(i)) + 2 + r.title_len + 2 + r.snippet_len + 1

\* modern_gemini_rag.py:68-77: context_parts (each chunk with its result's index)
RECURSIVE AssembleChunks(_, _, _, _, _)
AssembleChunks(rs, i, max_context_length, context_parts, total_length) ==
    IF i > Len(rs) THEN context_parts
    ELSE LET len == ChunkLen(i, rs[i])
         IN IF total_length + len <= max_context_length
            THEN AssembleChunks(rs, i + 1, max_context_length,
                                Append(context_parts, [index |-> i, len |-> len]),
                                total_length + len)
            ELSE context_parts

\* modern_gemini_rag.py:79: len("\n".join(context_parts))
JoinedLen(context_parts) ==
    IF context_parts = <<>> THEN 0
    ELSE SumLen(context_parts) + (Len(context_parts) - 1)

\* modern_gemini_rag.py:59-122; a model call that raises is raised again
generate_answer_async(rs, max_context_length, out) ==
    LET context_parts == AssembleChunks(rs, 1, max_context_length, <<>>, 0)
        avg_confidence == IF rs # <<>> THEN Mean(rs) ELSE Zero
        base == [max_context_length |-> max_context_length,
                 context |-> context_parts,
                 context_len |-> JoinedLen(context_parts),
                 model_calls |-> 1]
    IN IF out.raises
       THEN base @@ [answer |-> "raised", text |-> <<>>, sources |-> <<>>,
                     confidence_score |-> Zero, has_citations |-> FALSE]
       ELSE base @@ [answer |-> "generated", text |-> out.text, sources |-> rs,
                     confidence_score |-> avg_confidence, has_citations |-> TRUE]

\* response = await generate_answer_async(query, search_results, max_context_length)
GenerateAnswerAsync ==
    /\ response = Pending
    /\ \E b \in Budgets, out \in ModelOutcomes :
         response' = generate_answer_async(search_results, b, out)
    /\ UNCHANGED search_results
    /\ UNCHANGED <<rlVars, seqVars, thVars, cleanVars, searchVars>>
    /\ UNCHANGED extVars

NextModern == AddResult \/ GenerateAnswerAsync

SpecModern == InitGen /\ [][NextModern]_vars

\* C25: the context embedded in the prompt, the included chunks joined, never
\* has more than max_context_length characters.
C25_JoinedContextWithinBudget ==
    response.answer # "pending" => response.context_len <= response.max_context_length

\* C26: the response lists as sources exactly the results whose chunks were
\* included in the context, and its confidence_score is the mean over exactly
\* those results (0.0 when there are none).
C26_SourcesAreIncluded ==
    response.answer = "generated"
        => /\ response.sources = Included
           /\ IF Included = <<>> THEN response.confidence_score = Zero
              ELSE /\ response.confidence_score.den > 0
                   /\ response.confidence_score.num * Len(Included)
                        = response.confidence_score.den * SumConfidence(Included)

(***************************************************************************)
(* The core VertexRAGClient.search_async from the request on               *)
(* (core/vertex_rag_client.py:97-170; specification SpecBackend): the      *)
(* request has been built, it is sent, and the contexts of the response    *)
(* are parsed.  A field of a context is absent, a number (in tenths) or a  *)
(* text that float() rejects.                                              *)
(***************************************************************************)
AbsentField == [kind |-> "absent", n |-> 0]
Number(n) == [kind |-> "number", n |-> n]
TextField == [kind |-> "text", n |-> 0]

TitleA == <<"A">>
UriX == <<"g", "s", ":", "/", "/", "x">>

\* the contexts a response may hold
BackendContexts ==
    [sourceDisplayName : {<<>>, TitleA}, has_title : BOOLEAN,
     sourceUri : {<<>>, UriX},
     distance : {AbsentField, Number(3), TextField},
     score : {AbsentField, Number(9), TextField}]
    \ {c \in [sourceDisplayName : {<<>>, TitleA}, has_title : BOOLEAN,
              sourceUri : {<<>>, UriX},
              distance : {AbsentField, Number(3), TextField},
              score : {AbsentField, Number(9), TextField}] :
          c.has_title <=> c.sourceDisplayName = <<>>}

ContextLists == UNION {[1..n -> BackendContexts] : n \in 0..MaxContexts}

\* what the backend does with the request: it answers with contexts, answers
\* without the "contexts" key, or the request fails with a message
BackendResponses ==
    [condition : {"ok"}, contexts : ContextLists, message : {<<>>}]
    \cup [condition : {"no_contexts"}, contexts : {<<>>}, message : {<<>>}]
    \cup [condition : {"fails"}, contexts : {<<>>}, message : {Unimplemented, ReadTimedOut}]

DocumentWord == <<"D", "o", "c", "u", "m", "e", "n", "t", " ">>

\* a faulty variant: the placeholder title counts from 0
DefaultTitle_ZeroBased(i) == DocumentWord \o Decimal(i)

\* core/vertex_rag_client.py:118: f"Document {i+1}"
DefaultTitle(i) == DocumentWord \o Decimal(i + 1)

\* core/vertex_rag_client.py:112-153: the i-th context (i from 0) parsed, or the
\* exception that float() raised
ParseCoreContext(i, context) ==
    LET source_uri == context.sourceUri
        title == IF context.has_title THEN context.sourceDisplayName ELSE DefaultTitle(i)
        raw == IF context.distance.kind # "absent" THEN context.distance
               ELSE IF context.score.kind # "absent" THEN context.score
               ELSE Number(8)
        confidence_score ==
            IF context.distance.kind # "absent" THEN ClampDistance(raw.n) ELSE raw.n
    IN IF raw.kind = "text"
       THEN [parsed |-> FALSE, title |-> <<>>, source_uri |-> <<>>,
             confidence_score |-> 0, chunk_index |-> i]
       ELSE [parsed |-> TRUE, title |-> title, source_uri |-> source_uri,
             confidence_score |-> confidence_score, chunk_index |-> i]

\* core/vertex_rag_client.py:108-153: the loop over the contexts
RECURSIVE ParseContexts(_, _, _)
ParseContexts(contexts, i, parsed_results) ==
    IF i >= Len(contexts) THEN parsed_results
    ELSE LET r == ParseCoreContext(i, contexts[i + 1])
         IN ParseContexts(contexts, i + 1,
                          IF r.parsed THEN Append(parsed_results, r) ELSE parsed_results)

\* core/vertex_rag_client.py:97-170
retrieve_contexts(data) ==
    IF data.condition = "fails"
    THEN [done |-> TRUE, raised |-> ~IsNotImplemented(data.message), results |-> <<>>]
    ELSE IF data.condition = "no_contexts"
    THEN [done |-> TRUE, raised |-> FALSE, results |-> <<>>]
    ELSE [done |-> TRUE, raised |-> FALSE, results |-> ParseContexts(data.contexts, 0, <<>>)]

NoOutput == [done |-> FALSE, raised |-> FALSE, results |-> <<>>]

InitBackend ==
    /\ response_data \in BackendResponses
    /\ request_count = 0
    /\ search_output = NoOutput
    /\ IdleBackendRest

\* response_data = await loop.run_in_executor(None, sync_request), and the rest
\* of search_async
RetrieveContexts ==
    /\ ~search_output.done
    /\ request_count' = request_count + 1
    /\ search_output' = retrieve_contexts(response_data)
    /\ UNCHANGED response_data
    /\ UNCHANGED backendRest

NextBackend == RetrieveContexts

SpecBackend == InitBackend /\ [][NextBackend]_vars

\* float() rejects the field the confidence is taken from
ParsingFails(context) ==
    \/ context.distance.kind = "text"
    \/ context.distance.kind = "absent" /\ context.score.kind = "text"

\* the positions (from 1) of the contexts that can be parsed
Parsable(contexts) == {k \in 1..Len(contexts) : ~ParsingFails(contexts[k])}

\* C27: search_async sends one request per invocation; when the backend answers
\* with contexts the search does not fail and returns one SearchResult for each
\* context that can be parsed, in the backend's order, a context whose parsing
\* fails being skipped; a missing title becomes 'Document i+1', a missing URI
\* the empty string, and the confidence is 0.8 without distance and score.
C27_OneResultPerContextInOrder ==
    search_output.done
        => /\ request_count = 1
           /\ response_data.condition = "ok"
                => LET contexts == response_data.contexts
                       rs == search_output.results
                   IN /\ ~search_output.raised
                      /\ Len(rs) = Cardinality(Parsable(contexts))
                      /\ \A k \in 1..Len(rs) : rs[k].chunk_index + 1 \in Parsable(contexts)
                      /\ \A k \in 1..(Len(rs) - 1) :
                            rs[k].chunk_index < rs[k + 1].chunk_index
                      /\ \A k \in 1..Len(rs) :
                            LET i == rs[k].chunk_index
                                c == contexts[i + 1]
                            IN /\ rs[k].title = IF c.has_title THEN c.sourceDisplayName
                                                ELSE DocumentWord \o Decimal(i + 1)
                               /\ rs[k].source_uri = c.sourceUri
                               /\ (c.distance.kind = "absent" /\ c.score.kind = "absent")
                                     => rs[k].confidence_score = 8

\* C27 witness: two contexts, the first of which cannot be parsed; the second
\* is returned alone, with the placeholder title of its own position, an empty
\* URI and the default confidence
C27_Witness ==
    /\ search_output.done
    /\ response_data.condition = "ok"
    /\ Len(response_data.contexts) = 2
    /\ ParsingFails(response_data.contexts[1])
    /\ Len(search_output.results) = 1
    /\ search_output.results[1].title = DocumentWord \o <<"2">>
    /\ search_output.results[1].source_uri = <<>>
    /\ search_output.results[1].confidence_score = 8

(***************************************************************************)
(* The rate limiter on its own (specification SpecWindow): sequential      *)
(* _check_rate_limit calls of two users while the clock advances, with the *)
(* record of every call.                                                   *)
(***************************************************************************)
MaxWinCalls == 5

InitWindow ==
    /\ user_query_count = EmptyDict
    /\ user_last_reset = EmptyDict
    /\ now = 0
    /\ call_log = <<>>
    /\ IdleWinRest

\* allowed = self._check_rate_limit(user_id), at time now
CheckRateLimit ==
    /\ Len(call_log) < MaxWinCalls
    /\ \E u \in Users :
         LET a == AfterReset(u, now, user_query_count, user_last_reset)
             r == check_rate_limit(u, now, user_query_count, user_last_reset)
         IN /\ user_query_count' = r.count
            /\ user_last_reset' = r.reset
            /\ call_log' = Append(call_log,
                  [user |-> u, time |-> now, ok |-> r.ok,
                   known |-> u \in DOMAIN user_last_reset,
                   expired |-> /\ u \in DOMAIN user_last_reset
                               /\ now - user_last_reset[u] >= Window,
                   stored_count |-> Get(user_query_count, u, 0),
                   current_count |-> Get(a.count, u, 0)])
    /\ UNCHANGED now
    /\ UNCHANGED winRest

NextWindow == Tick \/ CheckRateLimit

SpecWindow == InitWindow /\ [][NextWindow]_vars

\* C28: the two mappings have the same user ids, every stored count is between
\* 0 and the limit, and the count a call reads (and increments) is the count
\* after that call's window-expiry check: 0 for a new user and after an expired
\* window, the stored count otherwise.
C28_LimiterStateInvariant ==
    /\ DOMAIN user_query_count = DOMAIN user_last_reset
    /\ \A u \in DOMAIN user_query_count :
          user_query_count[u] >= 0 /\ user_query_count[u] <= Limit
    /\ \A k \in 1..Len(call_log) :
          LET c == call_log[k]
          IN /\ (~c.known \/ c.expired) => (c.current_count = 0 /\ c.ok)
             /\ (c.known /\ ~c.expired) => c.current_count = c.stored_count
             /\ c.ok <=> c.current_count < Limit

\* C28 witness: a user whose stored count had reached the limit calls after the
\* window expired; the call reads 0 and leaves the count at 1
C28_Witness ==
    /\ call_log # <<>>
    /\ LET c == call_log[Len(call_log)]
       IN /\ c.expired
          /\ c.stored_count = Limit
          /\ c.current_count = 0
          /\ user_query_count[c.user] = 1

\* the accepted calls of user u at a time in [t, t + Window)
AcceptedIn(u, t) ==
    {k \in 1..Len(call_log) :
        /\ call_log[k].user = u /\ call_log[k].ok
        /\ call_log[k].time >= t /\ call_log[k].time < t + Window}

\* C29: for every user and every interval of length rate_limit_window, wherever
\* it starts, at most rate_limit_per_user calls of the user are accepted.
C29_AnyWindowWithinLimit ==
    \A u \in Users, t \in 0..MaxTime : Cardinality(AcceptedIn(u, t)) <= Limit

\* C30: a call for one user leaves the count and the last reset of every other
\* user as they were, and the user's own last reset changes only on the user's
\* first call or on a call made when now - last_reset >= window.
C30_PerUserFixedWindow ==
    [][call_log' # call_log =>
         LET c == call_log'[Len(call_log')]
         IN /\ \A v \in Users \ {c.user} :
                  /\ (v \in DOMAIN user_query_count') <=> (v \in DOMAIN user_query_count)
                  /\ (v \in DOMAIN user_last_reset') <=> (v \in DOMAIN user_last_reset)
                  /\ v \in DOMAIN user_query_count
                        => user_query_count'[v] = user_query_count[v]
                  /\ v \in DOMAIN user_last_reset
                        => user_last_reset'[v] = user_last_reset[v]
            /\ (/\ c.user \in DOMAIN user_last_reset
                /\ now - user_last_reset[c.user] < Window)
                  => user_last_reset'[c.user] = user_last_reset[c.user]]_vars

\* C30 witness: inside one user's window, later than its start, both an accepted
\* and a rejected call of that user were made while another user has state of
\* its own, and the window still starts where it did
C30_Witness ==
    \E j, k \in 1..Len(call_log) :
        /\ j < k
        /\ call_log[j].user = call_log[k].user
        /\ call_log[j].ok /\ ~call_log[k].ok
        /\ call_log[j].known /\ ~call_log[j].expired /\ ~call_log[k].expired
        /\ call_log[k].time > user_last_reset[call_log[k].user]
        /\ \E v \in DOMAIN user_last_reset : v # call_log[k].user

====
